---- MODULE Spec2Model ----
(***************************************************************************)
(* Ingestion pipeline of the healthcare database system:                   *)
(*   - IngestionOrchestrator (src/agents/ingestion_orchestrator.py): the   *)
(*     stage-tracked job, its in-memory map and its JSON snapshot on disk; *)
(*   - SchemaAgent (src/agents/schema_agent.py): the plan / compile /      *)
(*     verify / route refinement loop.                                     *)
(* One job is followed.  Handlers are split at the points where the source *)
(* assigns the stage, writes a snapshot or calls an external collaborator; *)
(* pc forces the steps of a handler to run in source order.                *)
(* Timestamps (created_at, updated_at) and the requirements text are not   *)
(* modelled: no control flow reads them.                                   *)
(***************************************************************************)
EXTENDS Integers, Sequences, FiniteSets, TLC

\* ---------------------------------------------------------------- bounds
MaxFiles == 2
MaxCalls == 3
MaxFaults == 1
MaxIssues == 2
MaxDbErrors == 1
MaxEntities == 2
MaxRows == 2
MaxParsedTables == 2
MaxRuns == 2
MaxColumns == 2
MaxRowCount == 2
MaxExecutes == 2
max_rounds == 2

\* ------------------------------------------------------- optional values
\* Python None is the empty sequence, a present value x is <<x>>.
None == <<>>
Some(x) == <<x>>
IsNone(o) == o = <<>>
Val(o) == o[1]

\* ------------------------------------------------------------ job record
STAGES ==
  <<"uploaded", "parsing", "analyzing", "generating_schema",
    "awaiting_approval", "creating_database", "completed", "failed">>

IngestionState(files) ==
  [ stage           |-> "uploaded",
    files           |-> files,
    parsed_data     |-> None,
    file_analysis   |-> None,
    schema_result   |-> None,
    schema_progress |-> None,
    database_result |-> None,
    errors          |-> <<>> ]

Err(msg, arg) == [msg |-> msg, arg |-> arg]

VARIABLES
  states,              \* self.states: None, or Some(job) once the id is in the map
  disk,                \* the snapshot file of the job
  pc,                  \* position of the running handler, "idle" between calls
  op,                  \* the running (or last) call and what happened in it
  ret,                 \* how the last call ended
  calls,               \* number of handler calls made so far
  faults,              \* number of snapshot writes that failed so far
  parsed_files,        \* process_files: local list of parsed files
  fidx,                \* process_files: index of the next file of the for loop
  databases,           \* physical databases: name -> number of materializations
  callback,            \* SchemaAgent.generate_schema: "none" or "orchestrator"
  round_num,           \* SchemaAgent.generate_schema: loop variable
  current_plan,        \* SchemaAgent.generate_schema: local
  refinement_history,  \* SchemaAgent.generate_schema: local
  schema_code,         \* SchemaAgent.generate_schema: local
  verification,        \* SchemaAgent.generate_schema: local
  service_calls,       \* synthesis-service calls made by the running agent call
  agent_out,           \* outcome of SchemaAgent.generate_schema
  router_out,          \* outcome of a direct call of _route_next_action
  service_response,    \* the service's answer a direct call of _verify_schema received
  status_out,          \* what the last get_status call returned
  compiler,            \* a direct call of _parse_column_definition: its line, its result
  builder,             \* a direct call of create_database_from_schema: arguments and locals
  physical_db,         \* the SQLite file of that call: table name -> number of rows
  executor,            \* DatabaseUpdateAgent.execute: the call and the application database
  analyzer             \* a direct call of the FileAnalyzer: its tables, its findings

vars ==
  <<states, disk, pc, op, ret, calls, faults, parsed_files, fidx, databases,
    callback, round_num, current_plan, refinement_history, schema_code,
    verification, service_calls, agent_out, router_out, service_response,
    status_out, compiler, builder, physical_db, executor, analyzer>>

orchVars == <<states, disk, op, ret, calls, faults, parsed_files, fidx, databases>>
agentVars ==
  <<callback, round_num, current_plan, refinement_history, schema_code,
    verification, service_calls, agent_out>>
toolVars == <<compiler, builder, physical_db, executor, analyzer>>
directVars == <<router_out, service_response, status_out, toolVars>>

Job == Val(states)
SetJob(j) == Some(j)

\* ------------------------------------------------------------ _save_state
\* _save_state opens the snapshot file for writing (which truncates it) and
\* dumps state.__dict__ as JSON.  The write succeeds ("ok"), or open() raises
\* and the file is untouched ("open_failed"), or json.dump raises on a value
\* that is not JSON-serializable (parsed rows hold pandas timestamps) after
\* the file was truncated ("dump_failed").
SaveOutcomes == {"ok", "open_failed", "dump_failed"}

Snapshot(job) == [status |-> "ok", data |-> Some(job)]
NoFile == [status |-> "absent", data |-> None]
Corrupt == [status |-> "corrupt", data |-> None]

save_state(job, outcome) ==
  CASE outcome = "ok"          -> Snapshot(job)
    [] outcome = "open_failed" -> disk
    [] outcome = "dump_failed" -> Corrupt

CanFail(outcome) == outcome = "ok" \/ faults < MaxFaults
Fault(outcome) == IF outcome = "ok" THEN faults ELSE faults + 1

\* Where control goes after the snapshot write at each call site.
SaveSites ==
  { "pf_save_parsing", "pf_save_nofiles", "pf_save_analyzing", "pf_save_analysis",
    "pf_save_failed", "gs_save_stage", "gs_save_result", "gs_save_failed",
    "fi_save_not_approved", "fi_save_creating", "fi_save_result", "fi_save_failed" }

AfterSave(site) ==
  CASE site = "pf_save_parsing"      -> "pf_parse"
    [] site = "pf_save_analyzing"    -> "pf_analyze"
    [] site = "gs_save_stage"        -> "gs_call_agent"
    [] site = "fi_save_creating"     -> "fi_build"
    [] OTHER                         -> "return"

\* The result the handler returns right after a successful write, if it returns.
ReturnAfter(site) ==
  CASE site = "pf_save_nofiles"      -> "error"
    [] site = "pf_save_analysis"     -> "success"
    [] site = "pf_save_failed"       -> "error"
    [] site = "gs_save_result"       -> "success"
    [] site = "gs_save_failed"       -> "error"
    [] site = "fi_save_not_approved" -> "message"
    [] site = "fi_save_result"       -> "result"
    [] site = "fi_save_failed"       -> "error"
    [] OTHER                         -> "none"

\* The except clause that catches an exception raised at the site; "return"
\* when the site is not inside a try body and the exception leaves the call.
Handler(site) ==
  CASE site \in {"pf_save_parsing", "pf_save_nofiles", "pf_save_analyzing",
                 "pf_save_analysis", "pf_parse", "pf_analyze"} -> "pf_except"
    [] site \in {"gs_save_stage", "gs_save_result", "agent"}   -> "gs_except"
    [] site \in {"fi_save_creating", "fi_save_result"}         -> "fi_except"
    [] OTHER                                                   -> "return"

\* An exception raised at `site`: control moves to the handler, or the call
\* ends by raising.
Raise(site) ==
  /\ pc' = Handler(site)
  /\ op' = [op EXCEPT !.raised = @ + 1]
  /\ ret' = IF Handler(site) = "return" THEN "raised" ELSE ret

SaveState ==
  /\ pc \in SaveSites
  /\ \E outcome \in SaveOutcomes :
       /\ CanFail(outcome)
       /\ disk' = save_state(Job, outcome)
       /\ faults' = Fault(outcome)
       /\ IF outcome = "ok"
            THEN /\ pc' = AfterSave(pc)
                 /\ ret' = IF AfterSave(pc) = "return" THEN ReturnAfter(pc) ELSE ret
                 /\ op' = op
            ELSE Raise(pc)
  /\ UNCHANGED <<states, calls, parsed_files, fidx, databases>>
  /\ UNCHANGED agentVars
  /\ UNCHANGED directVars

\* --------------------------------------------------------- start_ingestion
\* The uploaded files of a job: each file descriptor stands for a stored
\* file that FileParser.parse_file accepts ("parses") or rejects by raising
\* ("malformed": not found, unsupported format, too large, bad content).
FileLists == UNION { [1..n -> {"parses", "malformed"}] : n \in 0..MaxFiles }

\* start_ingestion (uuid4 gives a fresh id: the job is created once).  The
\* job enters the map before the snapshot is written, so a failing write
\* leaves it in memory only.
start_ingestion ==
  /\ pc = "idle"
  /\ IsNone(states) /\ disk = NoFile
  /\ \E files \in FileLists, outcome \in SaveOutcomes :
       /\ CanFail(outcome)
       /\ states' = SetJob(IngestionState(files))
       /\ disk' = save_state(IngestionState(files), outcome)
       /\ faults' = Fault(outcome)
       /\ ret' = IF outcome = "ok" THEN "upload_id" ELSE "raised"
  /\ op' = [name |-> "start_ingestion", approved |-> TRUE, db_name |-> "",
            raised |-> 0, errors0 |-> 0, parse_errors |-> 0]
  /\ pc' = "return"
  /\ UNCHANGED <<calls, parsed_files, fidx, databases, directVars>>
  /\ UNCHANGED agentVars

\* --------------------------------------------------------------- the calls
\* A caller invokes one of the three stage handlers on the job's id.
Handlers == {"process_files", "generate_schema", "finalize_ingestion"}

Call ==
  /\ pc = "idle"
  /\ calls < MaxCalls
  /\ ~(IsNone(states) /\ disk = NoFile)
  /\ \E name \in Handlers, approved \in BOOLEAN, db_name \in {""} :
       /\ name # "finalize_ingestion" => approved
       /\ op' = [name |-> name, approved |-> approved, db_name |-> db_name,
                 raised |-> 0,
                 errors0 |-> IF IsNone(states) THEN 0 ELSE Len(Job.errors),
                 parse_errors |-> 0]
  /\ pc' = "get_state"
  /\ calls' = calls + 1
  /\ ret' = "none"
  /\ UNCHANGED <<states, disk, faults, parsed_files, fidx, databases, directVars>>
  /\ UNCHANGED agentVars

\* The first statement of each handler's body.
Entry(name) ==
  CASE name = "process_files"      -> "pf_set_parsing"
    [] name = "generate_schema"    -> "gs_check"
    [] name = "finalize_ingestion" -> "fi_check"

\* _get_state: the job of the map, else the job loaded from its snapshot
\* (json.load raises on a truncated file; the call is outside every try).
get_state ==
  /\ pc = "get_state"
  /\ IF ~IsNone(states)
       THEN /\ pc' = Entry(op.name)
            /\ UNCHANGED <<states, op, ret>>
       ELSE CASE disk.status = "ok" ->
                   /\ states' = SetJob(Val(disk.data))
                   /\ op' = [op EXCEPT !.errors0 = Len(Val(disk.data).errors)]
                   /\ pc' = Entry(op.name)
                   /\ ret' = ret
              [] disk.status = "corrupt" ->
                   /\ Raise("get_state")
                   /\ UNCHANGED states
              [] OTHER ->
                   /\ pc' = "return"
                   /\ ret' = "invalid_id"
                   /\ UNCHANGED <<states, op>>
  /\ UNCHANGED <<disk, calls, faults, parsed_files, fidx, databases, directVars>>
  /\ UNCHANGED agentVars

\* The call has ended (ret says how) and control is back with the caller;
\* the handler's locals are gone.
NoCall ==
  [name |-> "none", approved |-> TRUE, db_name |-> "", raised |-> 0,
   errors0 |-> 0, parse_errors |-> 0]

\* When start_ingestion raised, its caller never got the upload id: nothing
\* can be called on the job ("no_id").
Return ==
  /\ pc = "return"
  /\ pc' = IF op.name = "start_ingestion" /\ ret = "raised" THEN "no_id" ELSE "idle"
  /\ op' = NoCall
  /\ ret' = "none"
  /\ parsed_files' = <<>>
  /\ fidx' = 1
  /\ UNCHANGED <<states, disk, calls, faults, databases, directVars>>
  /\ UNCHANGED agentVars

\* The process restarts between two calls: the in-memory map is lost.
Restart ==
  /\ pc = "idle"
  /\ ~IsNone(states)
  /\ states' = None
  /\ UNCHANGED <<disk, pc, op, ret, calls, faults, parsed_files, fidx, databases, directVars>>
  /\ UNCHANGED agentVars

\* Assigning state.stage (and nothing else) and moving on.
SetStage(stage) == SetJob([Job EXCEPT !.stage = stage])
AddError(job, e) == [job EXCEPT !.errors = Append(@, e)]

\* ----------------------------------------------------------- process_files
\* lines 139, 142: state.stage = "parsing"; parsed_files = []
pf_set_parsing ==
  /\ pc = "pf_set_parsing"
  /\ states' = SetStage("parsing")
  /\ parsed_files' = <<>>
  /\ fidx' = 1
  /\ pc' = "pf_save_parsing"
  /\ UNCHANGED <<disk, op, ret, calls, faults, databases, directVars>>
  /\ UNCHANGED agentVars

\* FileParser.parse_file: whether the file is parsed (else it raises).
parse_file(file) == file = "parses"

\* What the loop over the files leaves: the entries it adds to the error
\* list, and the files it parsed.
ParseErrors(files) ==
  LET F[k \in 0..Len(files)] ==
        IF k = 0 THEN <<>>
        ELSE IF parse_file(files[k]) THEN F[k - 1]
        ELSE Append(F[k - 1], Err("Error parsing", k))
  IN  F[Len(files)]
ParsedOf(files) ==
  LET F[k \in 0..Len(files)] ==
        IF k = 0 THEN <<>>
        ELSE IF parse_file(files[k]) THEN Append(F[k - 1], k)
        ELSE F[k - 1]
  IN  F[Len(files)]

\* Variant of pf_parse_file in which a file that fails to parse ends the loop
\* through the outer except clause.
pf_parse_file_aborting ==
  /\ pc = "pf_parse"
  /\ fidx <= Len(Job.files)
  /\ IF parse_file(Job.files[fidx])
         THEN /\ parsed_files' = Append(parsed_files, fidx)
              /\ UNCHANGED <<states, op, pc>>
         ELSE /\ states' = SetJob(AddError(Job, Err("Error parsing", fidx)))
              /\ op' = [op EXCEPT !.parse_errors = @ + 1]
              /\ pc' = "pf_except"
              /\ UNCHANGED parsed_files
  /\ fidx' = fidx + 1
  /\ UNCHANGED <<disk, ret, calls, faults, databases, directVars>>
  /\ UNCHANGED agentVars

\* lines 143-153: one iteration of the for loop; the inner except collects
\* the failure of parse_file.
pf_parse_file ==
  /\ pc = "pf_parse"
  /\ fidx <= Len(Job.files)
  /\ IF parse_file(Job.files[fidx])
         THEN /\ parsed_files' = Append(parsed_files, fidx)
              /\ UNCHANGED <<states, op>>
         ELSE /\ states' = SetJob(AddError(Job, Err("Error parsing", fidx)))
              /\ op' = [op EXCEPT !.parse_errors = @ + 1]
              /\ UNCHANGED parsed_files
  /\ fidx' = fidx + 1
  /\ UNCHANGED <<disk, pc, ret, calls, faults, databases, directVars>>
  /\ UNCHANGED agentVars

\* lines 155-164: after the loop.
pf_after_parse ==
  /\ pc = "pf_parse"
  /\ fidx > Len(Job.files)
  /\ IF parsed_files = <<>>
       THEN /\ states' = SetJob(AddError([Job EXCEPT !.stage = "failed"],
                                         Err("No files successfully parsed", 0)))
            /\ pc' = "pf_save_nofiles"
       ELSE /\ states' = SetJob([Job EXCEPT !.parsed_data = Some(parsed_files),
                                            !.stage = "analyzing"])
            /\ pc' = "pf_save_analyzing"
  /\ UNCHANGED <<disk, op, ret, calls, faults, parsed_files, fidx, databases, directVars>>
  /\ UNCHANGED agentVars

\* FileAnalyzer.analyze_files: the report of the parsed files.
analyze_files(files) == [total_files |-> Len(files)]

\* lines 168-172: analyze_files returns or raises.
pf_analyze ==
  /\ pc = "pf_analyze"
  /\ \E analysed \in BOOLEAN :
       IF analysed
         THEN /\ states' = SetJob([Job EXCEPT
                                     !.file_analysis = Some(analyze_files(parsed_files)),
                                     !.stage = "analyzing"])
              /\ pc' = "pf_save_analysis"
              /\ UNCHANGED <<op, ret>>
         ELSE /\ Raise("pf_analyze")
              /\ UNCHANGED states
  /\ UNCHANGED <<disk, calls, faults, parsed_files, fidx, databases, directVars>>
  /\ UNCHANGED agentVars

\* lines 182-185
pf_except ==
  /\ pc = "pf_except"
  /\ states' = SetJob(AddError([Job EXCEPT !.stage = "failed"],
                               Err("Processing failed", 0)))
  /\ pc' = "pf_save_failed"
  /\ UNCHANGED <<disk, op, ret, calls, faults, parsed_files, fidx, databases, directVars>>
  /\ UNCHANGED agentVars

\* -------------------------------------------------------------- get_status
\* lines 318-333.  A status request is served on its own thread, at any
\* moment of a handler running for the same job (the schema generation of
\* app.py runs on a background thread): _get_state gives the job of the map,
\* or loads it from its snapshot into the map, and to_dict() of that job is
\* returned.  The requester holds the upload id start_ingestion returned.
StatusOf(job) == [result |-> "status", stage |-> job.stage, errors |-> job.errors]
StatusRaised == [result |-> "raised", stage |-> "none", errors |-> <<>>]

get_status ==
  /\ pc # "no_id" /\ op.name # "start_ingestion"
  /\ IF ~IsNone(states)
       THEN /\ status_out' = Some(StatusOf(Job))
            /\ UNCHANGED states
       ELSE /\ disk.status # "absent"
            /\ IF disk.status = "ok"
                 THEN /\ states' = SetJob(Val(disk.data))
                      /\ status_out' = Some(StatusOf(Val(disk.data)))
                 ELSE /\ status_out' = Some(StatusRaised)
                      /\ UNCHANGED states
  /\ UNCHANGED <<disk, pc, op, ret, calls, faults, parsed_files, fidx, databases>>
  /\ UNCHANGED <<router_out, service_response, toolVars>>
  /\ UNCHANGED agentVars

\* ============================================================ SchemaAgent
\* ------------------------------------------------ the synthesis service
Severities == {"critical", "warning", "info"}

\* The issue lists of up to n issues; an issue's description is one of descs.
IssueLists(n, descs) ==
  UNION { [1..k -> [severity : Severities, description : descs]] : k \in 0..n }

\* What the service answers to the verification prompt (a missing or null
\* is_sufficient reads as FALSE through verification.get).
Reports(n) == [is_sufficient : BOOLEAN, issues : IssueLists(n, 1..n)]

\* Inside the refinement loop only the presence of a critical issue steers
\* the control flow: there the service answers with at most one issue.  The
\* orchestrator never reads the issue texts, so behind it one text stands for
\* all of them.
IssueTexts == IF callback = "none" THEN 1..MaxIssues ELSE {1}
VerifyResponses == [is_sufficient : BOOLEAN, issues : IssueLists(1, IssueTexts)]

\* What the service answers to the compile prompt: the text, as a sequence
\* of tokens, bare or inside a markdown fence.
Codes == {"models_a", "models_b"}
CodeResponses ==
  { <<c>> : c \in Codes }
    \cup { <<"fence_python", c, "fence">> : c \in Codes }
    \cup { <<"fence", c, "fence">> : c \in Codes }

\* lines 297-304: the fence, if any, is removed.
generate_code(response) ==
  IF Head(response) = "fence_python" THEN Head(Tail(response))
  ELSE IF Head(response) = "fence" THEN Head(Tail(response))
  ELSE Head(response)

\* What the service answers to a planning prompt: a JSON object; the plan
\* obtained in round r is called r.
PlanResponses(round) == [round : {round}]

IsCritical(i) == i.severity = "critical"
IsWarning(i) == i.severity = "warning"

\* Variant of verify_schema without lines 367-369: the service's flag is kept.
verify_schema_as_sent(response) == response

\* lines 364-371: the report, with is_sufficient recomputed when it is falsy.
verify_schema(response) ==
  IF ~response.is_sufficient
    THEN [response EXCEPT !.is_sufficient = Len(SelectSeq(response.issues, IsCritical)) = 0]
    ELSE response

\* Variant of route_next_action with the two priority blocks swapped:
\* warnings are looked for before critical issues.
route_warnings_first(report) ==
  LET issues   == report.issues
      critical == SelectSeq(issues, IsCritical)
      warnings == SelectSeq(issues, IsWarning)
  IN  IF issues = <<>>
        THEN [type |-> "complete", reason |-> "No issues found", description |-> 0]
      ELSE IF warnings # <<>>
        THEN [type |-> "refine", reason |-> "Address warning",
              description |-> warnings[1].description]
      ELSE IF critical # <<>>
        THEN [type |-> "refine", reason |-> "Fix critical issue",
              description |-> critical[1].description]
      ELSE [type |-> "complete", reason |-> "Only minor issues remain", description |-> 0]

\* lines 373-397
route_next_action(report) ==
  LET issues   == report.issues
      critical == SelectSeq(issues, IsCritical)
      warnings == SelectSeq(issues, IsWarning)
  IN  IF issues = <<>>
        THEN [type |-> "complete", reason |-> "No issues found", description |-> 0]
      ELSE IF critical # <<>>
        THEN [type |-> "refine", reason |-> "Fix critical issue",
              description |-> critical[1].description]
      ELSE IF warnings # <<>>
        THEN [type |-> "refine", reason |-> "Address warning",
              description |-> warnings[1].description]
      ELSE [type |-> "complete", reason |-> "Only minor issues remain", description |-> 0]

\* lines 399-434: the description walks the plan.
generate_description(plan) == [of_plan |-> plan.round]

\* ---------------------------------------------------------- the loop steps
\* lines 55-56: the locals of a fresh call; cb is the progress callback.
FreshAgent(cb) ==
  /\ callback' = cb
  /\ round_num' = 0
  /\ current_plan' = None
  /\ refinement_history' = <<>>
  /\ schema_code' = None
  /\ verification' = None
  /\ service_calls' = [plan |-> 0, code |-> 0, verify |-> 0]
  /\ agent_out' = [status |-> "running", result |-> None]

\* The locals of a call that has ended.
NoLocals ==
  /\ callback' = "none"
  /\ round_num' = 0
  /\ current_plan' = None
  /\ refinement_history' = <<>>
  /\ schema_code' = None
  /\ verification' = None

\* The step after `site` of the loop, through the progress callback if any.
Via(cb_site, next) == IF callback = "none" THEN next ELSE cb_site

\* An exception leaves SchemaAgent.generate_schema (it has no try): the
\* orchestrator's except clause catches it, a direct caller sees it.
AgentRaises ==
  /\ agent_out' = [status |-> "raised", result |-> None]
  /\ NoLocals
  /\ IF callback = "none"
       THEN /\ pc' = "agent_done"
            /\ UNCHANGED <<op, ret>>
       ELSE Raise("agent")

\* line 142: the agent returns its result to its caller.
AgentReturns(result) ==
  /\ agent_out' = [status |-> "returned", result |-> Some(result)]
  /\ NoLocals
  /\ pc' = IF callback = "none" THEN "agent_done" ELSE "gs_store"
  /\ UNCHANGED <<op, ret>>

\* lines 59-70: the for loop enters its next round.
ag_round ==
  /\ pc = "ag_round"
  /\ round_num < max_rounds
  /\ round_num' = round_num + 1
  /\ pc' = Via("cb_planning", "ag_plan")
  /\ UNCHANGED <<callback, current_plan, refinement_history, schema_code, verification,
                 service_calls, agent_out, directVars>>
  /\ UNCHANGED orchVars

\* lines 72-91: _create_initial_plan or _refine_plan, then the round's record.
ag_plan ==
  /\ pc = "ag_plan"
  /\ service_calls' = [service_calls EXCEPT !.plan = @ + 1]
  /\ \/ \E plan \in PlanResponses(round_num) :
          /\ current_plan' = Some(plan)
          /\ refinement_history' =
               Append(refinement_history,
                      [round |-> round_num, plan |-> plan,
                       verification |-> None, action |-> None])
          /\ pc' = Via("cb_generating_code", "ag_code")
          /\ UNCHANGED <<callback, round_num, schema_code, verification, agent_out,
                         op, ret>>
     \/ AgentRaises
  /\ UNCHANGED <<states, disk, calls, faults, parsed_files, fidx, databases, directVars>>

\* line 102: _generate_code
ag_code ==
  /\ pc = "ag_code"
  /\ service_calls' = [service_calls EXCEPT !.code = @ + 1]
  /\ \/ \E response \in CodeResponses :
          /\ schema_code' = Some(generate_code(response))
          /\ pc' = Via("cb_verifying", "ag_verify")
          /\ UNCHANGED <<callback, round_num, current_plan, refinement_history,
                         verification, agent_out, op, ret>>
     \/ AgentRaises
  /\ UNCHANGED <<states, disk, calls, faults, parsed_files, fidx, databases, directVars>>

\* line 114, line 122: refinement_history[-1] gets its verification, its action.
SetVerification(history, report) ==
  [history EXCEPT ![Len(history)].verification = Some(report)]
\* Variant of SetAction that writes the action into the first record of the
\* history instead of the last one.
SetAction_on_first(history, action) ==
  [history EXCEPT ![1].action = Some(action)]
SetAction(history, action) ==
  [history EXCEPT ![Len(history)].action = Some(action)]

\* Variant of ag_verify without the break of lines 117-119: a sufficient
\* round goes on to the router like any other.
ag_verify_without_break ==
  /\ pc = "ag_verify"
  /\ service_calls' = [service_calls EXCEPT !.verify = @ + 1]
  /\ \/ \E response \in VerifyResponses :
          LET report == verify_schema(response) IN
          /\ verification' = Some(report)
          /\ refinement_history' =
               SetVerification(refinement_history, report)
          /\ pc' = "ag_route"
          /\ UNCHANGED <<callback, round_num, current_plan, schema_code, agent_out,
                         op, ret>>
     \/ AgentRaises
  /\ UNCHANGED <<states, disk, calls, faults, parsed_files, fidx, databases, directVars>>

\* lines 113-119: _verify_schema, the record's verification, the early exit.
ag_verify ==
  /\ pc = "ag_verify"
  /\ service_calls' = [service_calls EXCEPT !.verify = @ + 1]
  /\ \/ \E response \in VerifyResponses :
          LET report == verify_schema(response) IN
          /\ verification' = Some(report)
          /\ refinement_history' =
               SetVerification(refinement_history, report)
          /\ pc' = IF report.is_sufficient THEN "ag_final" ELSE "ag_route"
          /\ UNCHANGED <<callback, round_num, current_plan, schema_code, agent_out,
                         op, ret>>
     \/ AgentRaises
  /\ UNCHANGED <<states, disk, calls, faults, parsed_files, fidx, databases, directVars>>

\* The loop statement after the last statement of a round's body.
NextRound == IF round_num = max_rounds THEN "ag_final" ELSE "ag_round"

\* lines 121-135: the router, the record's action.
ag_route ==
  /\ pc = "ag_route"
  /\ refinement_history' =
       SetAction(refinement_history, route_next_action(Val(verification)))
  /\ pc' = Via("cb_refining", NextRound)
  /\ UNCHANGED <<callback, round_num, current_plan, schema_code, verification,
                 service_calls, agent_out, directVars>>
  /\ UNCHANGED orchVars

\* lines 142-150
SchemaResult(code) ==
  [ schema_code            |-> code,
    schema_description     |-> generate_description(Val(current_plan)),
    verification_status    |-> Val(verification).is_sufficient,
    relationships_detected |-> Val(current_plan).round,
    refinement_history     |-> refinement_history,
    rounds_taken           |-> Len(refinement_history) ]

\* lines 139-150: the final compilation, the description, the result.  The
\* service call raises or returns; _generate_description raises KeyError on a
\* plan object without the tables / columns keys it reads.
ag_final ==
  /\ pc = "ag_final"
  /\ service_calls' = [service_calls EXCEPT !.code = @ + 1]
  /\ \/ \E response \in CodeResponses : AgentReturns(SchemaResult(generate_code(response)))
     \/ AgentRaises
  /\ UNCHANGED <<states, disk, calls, faults, parsed_files, fidx, databases, directVars>>

\* ============================================= orchestrator.generate_schema
\* lines 204-208
gs_check ==
  /\ pc = "gs_check"
  /\ IF IsNone(Job.file_analysis)
       THEN /\ pc' = "return"
            /\ ret' = "error"
            /\ UNCHANGED states
       ELSE /\ states' = SetStage("generating_schema")
            /\ pc' = "gs_save_stage"
            /\ ret' = ret
  /\ UNCHANGED <<disk, op, calls, faults, parsed_files, fidx, databases, directVars>>
  /\ UNCHANGED agentVars

\* lines 213-221: the call of the agent, with the progress callback.
gs_call_agent ==
  /\ pc = "gs_call_agent"
  /\ FreshAgent("orchestrator")
  /\ pc' = "ag_round"
  /\ UNCHANGED orchVars
  /\ UNCHANGED directVars

CallbackSites == {"cb_planning", "cb_generating_code", "cb_verifying", "cb_refining"}

AfterCallback(site) ==
  CASE site = "cb_planning"        -> "ag_plan"
    [] site = "cb_generating_code" -> "ag_code"
    [] site = "cb_verifying"       -> "ag_verify"
    [] site = "cb_refining"        -> NextRound

\* schema_agent.py lines 64-70, 95-100, 106-111, 128-133: the progress record.
ProgressInfo(site) ==
  [ round |-> round_num,
    stage |-> CASE site = "cb_planning" ->
                     IF round_num = 1 THEN "planning" ELSE "refining"
                [] site = "cb_generating_code" -> "generating_code"
                [] site = "cb_verifying"       -> "verifying"
                [] site = "cb_refining"        -> "refining" ]

\* lines 213-215: the callback records the progress and writes a snapshot;
\* an exception of the write leaves the callback and the agent.
progress_callback ==
  /\ pc \in CallbackSites
  /\ \E outcome \in SaveOutcomes :
       LET job == [Job EXCEPT !.schema_progress = Some(ProgressInfo(pc))] IN
       /\ CanFail(outcome)
       /\ states' = SetJob(job)
       /\ disk' = save_state(job, outcome)
       /\ faults' = Fault(outcome)
       /\ IF outcome = "ok"
            THEN /\ pc' = AfterCallback(pc)
                 /\ UNCHANGED <<callback, round_num, current_plan, refinement_history,
                                schema_code, verification, agent_out, op, ret>>
            ELSE AgentRaises
  /\ UNCHANGED <<service_calls, calls, parsed_files, fidx, databases, directVars>>

\* The orchestrator has taken the agent's outcome.
AgentDone ==
  /\ service_calls' = [plan |-> 0, code |-> 0, verify |-> 0]
  /\ agent_out' = [status |-> "none", result |-> None]
  /\ UNCHANGED <<callback, round_num, current_plan, refinement_history, schema_code,
                 verification>>

\* lines 223-225
gs_store ==
  /\ pc = "gs_store"
  /\ states' = SetJob([Job EXCEPT !.schema_result = agent_out.result,
                                  !.stage = "awaiting_approval"])
  /\ pc' = "gs_save_result"
  /\ AgentDone
  /\ UNCHANGED <<disk, op, ret, calls, faults, parsed_files, fidx, databases, directVars>>

\* Variant of gs_except without line 238: the error is recorded, the stage
\* is left as it is.
gs_except_keeping_stage ==
  /\ pc = "gs_except"
  /\ states' = SetJob(AddError(Job, Err("Schema generation failed", 0)))
  /\ pc' = "gs_save_failed"
  /\ AgentDone
  /\ UNCHANGED <<disk, op, ret, calls, faults, parsed_files, fidx, databases, directVars>>

\* lines 237-240
gs_except ==
  /\ pc = "gs_except"
  /\ states' = SetJob(AddError([Job EXCEPT !.stage = "failed"],
                               Err("Schema generation failed", 0)))
  /\ pc' = "gs_save_failed"
  /\ AgentDone
  /\ UNCHANGED <<disk, op, ret, calls, faults, parsed_files, fidx, databases, directVars>>

\* ================================================ DatabaseBuilder (outline)
\* create_database_from_schema never raises: it returns success once every
\* table and row was attempted, with one structural error per table that
\* failed, or success false with "Database creation failed" as last error.
TableErrors(k) == [i \in 1..k |-> Err("Error creating table", i)]

create_database_from_schema ==
  { [success |-> TRUE, connected |-> TRUE, errors |-> TableErrors(k)] :
      k \in 0..MaxDbErrors }
    \cup
  { [success |-> FALSE, connected |-> c,
     errors |-> Append(TableErrors(k), Err("Database creation failed", 0))] :
      k \in 0..MaxDbErrors, c \in BOOLEAN }

\* ======================================================= finalize_ingestion
DbNames == {"ingestion_id8"}

\* lines 279-280
db_name_of(requested) == IF requested = "" THEN "ingestion_id8" ELSE requested

\* Variant of fi_check without lines 267-268 (save and return): a call without
\* approval falls through to the approved path.
fi_check_without_return ==
  /\ pc = "fi_check"
  /\ IF IsNone(Job.schema_result)
       THEN /\ pc' = "return"
            /\ ret' = "error"
            /\ states' = IF op.approved THEN states ELSE SetStage("awaiting_approval")
       ELSE /\ states' = SetStage("creating_database")
            /\ pc' = "fi_save_creating"
            /\ ret' = ret
  /\ UNCHANGED <<disk, op, calls, faults, parsed_files, fidx, databases, directVars>>
  /\ UNCHANGED agentVars

\* lines 266-275
fi_check ==
  /\ pc = "fi_check"
  /\ IF ~op.approved
       THEN /\ states' = SetStage("awaiting_approval")
            /\ pc' = "fi_save_not_approved"
            /\ ret' = ret
       ELSE IF IsNone(Job.schema_result)
         THEN /\ pc' = "return"
              /\ ret' = "error"
              /\ UNCHANGED states
         ELSE /\ states' = SetStage("creating_database")
              /\ pc' = "fi_save_creating"
              /\ ret' = ret
  /\ UNCHANGED <<disk, op, calls, faults, parsed_files, fidx, databases, directVars>>
  /\ UNCHANGED agentVars

Extend(seq, more) == seq \o more

\* Variant of fi_build in which a result with structural errors never
\* completes the job.
fi_build_strict ==
  /\ pc = "fi_build"
  /\ \E db_result \in create_database_from_schema :
       LET name == db_name_of(op.db_name) IN
       /\ databases' = IF db_result.connected
                         THEN [databases EXCEPT ![name] = @ + 1]
                         ELSE databases
       /\ states' =
            SetJob(IF db_result.success /\ db_result.errors = <<>>
                     THEN [Job EXCEPT !.database_result = Some(db_result),
                                      !.stage = "completed"]
                     ELSE [Job EXCEPT !.database_result = Some(db_result),
                                      !.stage = "failed",
                                      !.errors = Extend(@, db_result.errors)])
  /\ pc' = "fi_save_result"
  /\ UNCHANGED <<disk, op, ret, calls, faults, parsed_files, fidx, directVars>>
  /\ UNCHANGED agentVars

\* lines 279-297
fi_build ==
  /\ pc = "fi_build"
  /\ \E db_result \in create_database_from_schema :
       LET name == db_name_of(op.db_name) IN
       /\ databases' = IF db_result.connected
                         THEN [databases EXCEPT ![name] = @ + 1]
                         ELSE databases
       /\ states' =
            SetJob(IF db_result.success
                     THEN [Job EXCEPT !.database_result = Some(db_result),
                                      !.stage = "completed"]
                     ELSE [Job EXCEPT !.database_result = Some(db_result),
                                      !.stage = "failed",
                                      !.errors = Extend(@, db_result.errors)])
  /\ pc' = "fi_save_result"
  /\ UNCHANGED <<disk, op, ret, calls, faults, parsed_files, fidx, directVars>>
  /\ UNCHANGED agentVars

\* lines 311-314
fi_except ==
  /\ pc = "fi_except"
  /\ states' = SetJob(AddError([Job EXCEPT !.stage = "failed"],
                               Err("Database creation failed", 0)))
  /\ pc' = "fi_save_failed"
  /\ UNCHANGED <<disk, op, ret, calls, faults, parsed_files, fidx, databases, directVars>>
  /\ UNCHANGED agentVars

\* ========================================================= specifications
\* No direct call of the compiler, the builder or the analyzer is under way.
IdleTools ==
  /\ compiler = None
  /\ executor = None
  /\ builder = None
  /\ physical_db = None
  /\ analyzer = None

IdleAgent ==
  /\ callback = "none"
  /\ round_num = 0
  /\ current_plan = None
  /\ refinement_history = <<>>
  /\ schema_code = None
  /\ verification = None
  /\ service_calls = [plan |-> 0, code |-> 0, verify |-> 0]

\* The orchestrator after construction: no job, no snapshot, no database.
NoJobs ==
  /\ states = None
  /\ disk = NoFile
  /\ op = NoCall
  /\ ret = "none"
  /\ calls = 0
  /\ faults = 0
  /\ parsed_files = <<>>
  /\ fidx = 1
  /\ databases = [n \in DbNames |-> 0]

Init ==
  /\ NoJobs
  /\ pc = "idle"
  /\ IdleAgent
  /\ agent_out = [status |-> "none", result |-> None]
  /\ router_out = None
  /\ service_response = None
  /\ status_out = None
  /\ IdleTools

Next ==
  \/ start_ingestion
  \/ Call
  \/ get_state
  \/ Return
  \/ Restart
  \/ SaveState
  \/ pf_set_parsing
  \/ pf_parse_file
  \/ pf_after_parse
  \/ pf_analyze
  \/ pf_except
  \/ gs_check
  \/ gs_call_agent
  \/ progress_callback
  \/ ag_round
  \/ ag_plan
  \/ ag_code
  \/ ag_verify
  \/ ag_route
  \/ ag_final
  \/ gs_store
  \/ gs_except
  \/ fi_check
  \/ fi_build
  \/ fi_except

Spec == Init /\ [][Next]_vars

\* The handlers together with status requests.
NextStatus == Next \/ get_status

SpecStatus == Init /\ [][NextStatus]_vars

\* ------------------------------------------------- a job awaiting approval
\* The job after start_ingestion, process_files and a generate_schema that
\* was judged sufficient in its first round: at least one of its files
\* parsed, every snapshot write succeeded.
OneRound ==
  [round |-> 1, plan |-> [round |-> 1],
   verification |-> Some([is_sufficient |-> TRUE, issues |-> <<>>]),
   action |-> None]
OneRoundResult ==
  [ schema_code            |-> "models_a",
    schema_description     |-> generate_description([round |-> 1]),
    verification_status    |-> TRUE,
    relationships_detected |-> 1,
    refinement_history     |-> <<OneRound>>,
    rounds_taken           |-> 1 ]
AwaitingApproval(files) ==
  [IngestionState(files) EXCEPT
     !.stage = "awaiting_approval",
     !.parsed_data = Some(ParsedOf(files)),
     !.file_analysis = Some(analyze_files(ParsedOf(files))),
     !.schema_result = Some(OneRoundResult),
     !.schema_progress = Some([stage |-> "verifying", round |-> 1]),
     !.errors = ParseErrors(files)]

InitApproval ==
  /\ \E files \in FileLists :
        /\ ParsedOf(files) # <<>>
        /\ states = Some(AwaitingApproval(files))
        /\ disk = Snapshot(AwaitingApproval(files))
  /\ op = NoCall
  /\ ret = "none"
  /\ calls = 0
  /\ faults = 0
  /\ parsed_files = <<>>
  /\ fidx = 1
  /\ databases = [n \in DbNames |-> 0]
  /\ pc = "idle"
  /\ IdleAgent
  /\ agent_out = [status |-> "none", result |-> None]
  /\ router_out = None
  /\ service_response = None
  /\ status_out = None
  /\ IdleTools

\* The calls that follow on the job (start_ingestion is behind it).
NextApproval ==
  \/ Call
  \/ get_state
  \/ Return
  \/ Restart
  \/ SaveState
  \/ pf_set_parsing
  \/ pf_parse_file
  \/ pf_after_parse
  \/ pf_analyze
  \/ pf_except
  \/ gs_check
  \/ gs_call_agent
  \/ progress_callback
  \/ ag_round
  \/ ag_plan
  \/ ag_code
  \/ ag_verify
  \/ ag_route
  \/ ag_final
  \/ gs_store
  \/ gs_except
  \/ fi_check
  \/ fi_build
  \/ fi_except

SpecApproval == InitApproval /\ [][NextApproval]_vars

\* SchemaAgent.generate_schema called directly, without a progress callback.
InitAgent ==
  /\ NoJobs
  /\ pc = "ag_round"
  /\ IdleAgent
  /\ agent_out = [status |-> "running", result |-> None]
  /\ router_out = None
  /\ service_response = None
  /\ status_out = None
  /\ IdleTools

NextAgent ==
  \/ ag_round
  \/ ag_plan
  \/ ag_code
  \/ ag_verify
  \/ ag_route
  \/ ag_final

SpecAgent == InitAgent /\ [][NextAgent]_vars

\* _route_next_action called directly on a verification report.
RouterReports == Reports(MaxIssues)

InitRouter ==
  /\ NoJobs
  /\ pc = "router_call"
  /\ callback = "none"
  /\ round_num = 0
  /\ current_plan = None
  /\ refinement_history = <<>>
  /\ schema_code = None
  /\ service_calls = [plan |-> 0, code |-> 0, verify |-> 0]
  /\ \E report \in RouterReports : verification = Some(report)
  /\ agent_out = [status |-> "none", result |-> None]
  /\ router_out = None
  /\ service_response = None
  /\ status_out = None
  /\ IdleTools

router_call ==
  /\ pc = "router_call"
  /\ router_out' = Some(route_next_action(Val(verification)))
  /\ pc' = "router_done"
  /\ UNCHANGED <<service_response, status_out, toolVars>>
  /\ UNCHANGED orchVars
  /\ UNCHANGED agentVars

NextRouter == router_call

SpecRouter == InitRouter /\ [][NextRouter]_vars

\* _verify_schema called directly: the service has answered the verification
\* prompt, lines 364-371 turn the answer into the report.
InitVerify ==
  /\ NoJobs
  /\ pc = "verify_call"
  /\ IdleAgent
  /\ agent_out = [status |-> "none", result |-> None]
  /\ router_out = None
  /\ status_out = None
  /\ IdleTools
  /\ \E response \in Reports(MaxIssues) : service_response = Some(response)

verify_call ==
  /\ pc = "verify_call"
  /\ verification' = Some(verify_schema(Val(service_response)))
  /\ service_calls' = [service_calls EXCEPT !.verify = @ + 1]
  /\ pc' = "verify_done"
  /\ UNCHANGED <<callback, round_num, current_plan, refinement_history, schema_code,
                 agent_out>>
  /\ UNCHANGED directVars
  /\ UNCHANGED orchVars

NextVerify == verify_call

SpecVerify == InitVerify /\ [][NextVerify]_vars

\* ====================================== DatabaseBuilder: the DDL compiler
\* A text is the sequence of its characters; Contains is Python's
\* `pattern in text`.
Contains(text, pattern) ==
  \E i \in 0..(Len(text) - Len(pattern)) : SubSeq(text, i + 1, i + Len(pattern)) = pattern

\* The type expressions a column declaration may carry.
db_Integer == <<"d", "b", ".", "I", "n", "t", "e", "g", "e", "r">>
db_String == <<"d", "b", ".", "S", "t", "r", "i", "n", "g">>
db_Float == <<"d", "b", ".", "F", "l", "o", "a", "t">>
db_Boolean == <<"d", "b", ".", "B", "o", "o", "l", "e", "a", "n">>
db_Date == <<"d", "b", ".", "D", "a", "t", "e">>
db_DateTime == <<"d", "b", ".", "D", "a", "t", "e", "T", "i", "m", "e">>
db_Text == <<"d", "b", ".", "T", "e", "x", "t">>
db_Numeric == <<"d", "b", ".", "N", "u", "m", "e", "r", "i", "c">>
db_JSON == <<"d", "b", ".", "J", "S", "O", "N">>
db_BigInteger == <<"d", "b", ".", "B", "i", "g", "I", "n", "t", "e", "g", "e", "r">>
Integer_text == <<"I", "n", "t", "e", "g", "e", "r">>

DeclaredTypes ==
  { db_Integer, db_String, db_Float, db_Boolean, db_Date, db_DateTime, db_Text,
    db_Numeric, db_JSON, db_BigInteger }

Markers == {"primary_key=True", "unique=True", "nullable=False", "autoincrement=True"}

\* A declaration line `name = db.Column(<type>, <markers>)`.
ColumnLines == [name : {"c"}, type : DeclaredTypes, markers : SUBSET Markers]

\* The part of the line the type patterns can match: the column name and
\* the markers hold none of them.
LineText(line) == line.type

\* lines 171-186: the first pattern found in the line decides the type.
column_type(line) ==
  IF Contains(LineText(line), db_Integer) THEN "INTEGER"
  ELSE IF Contains(LineText(line), db_String) THEN "TEXT"
  ELSE IF Contains(LineText(line), db_Float) THEN "REAL"
  ELSE IF Contains(LineText(line), db_Boolean) THEN "INTEGER"
  ELSE IF Contains(LineText(line), db_Date) THEN "DATE"
  ELSE IF Contains(LineText(line), db_DateTime) THEN "DATETIME"
  ELSE IF Contains(LineText(line), db_Text) THEN "TEXT"
  ELSE "TEXT"

\* lines 188-197
column_constraints(line) ==
  (IF "primary_key=True" \in line.markers THEN <<"PRIMARY KEY">> ELSE <<>>)
    \o (IF "unique=True" \in line.markers THEN <<"UNIQUE">> ELSE <<>>)
    \o (IF "nullable=False" \in line.markers THEN <<"NOT NULL">> ELSE <<>>)
    \o (IF \/ "autoincrement=True" \in line.markers
           \/ ("primary_key=True" \in line.markers /\ Contains(LineText(line), Integer_text))
          THEN <<"AUTOINCREMENT">> ELSE <<>>)

\* lines 167-206: the SQL definition, as its type followed by its constraints.
parse_column_definition(line) ==
  [type |-> column_type(line), constraints |-> column_constraints(line)]

\* _parse_column_definition called directly on a declaration line.
InitColumn ==
  /\ NoJobs
  /\ pc = "compile_call"
  /\ IdleAgent
  /\ agent_out = [status |-> "none", result |-> None]
  /\ router_out = None
  /\ service_response = None
  /\ status_out = None
  /\ builder = None
  /\ physical_db = None
  /\ executor = None
  /\ analyzer = None
  /\ \E line \in ColumnLines : compiler = Some([line |-> line, sql |-> None])

compile_call ==
  /\ pc = "compile_call"
  /\ compiler' = Some([Val(compiler) EXCEPT
                         !.sql = Some(parse_column_definition(Val(compiler).line))])
  /\ pc' = "compile_done"
  /\ UNCHANGED <<router_out, service_response, status_out, builder, physical_db, executor, analyzer>>
  /\ UNCHANGED orchVars
  /\ UNCHANGED agentVars

NextColumn == compile_call

SpecColumn == InitColumn /\ [][NextColumn]_vars


\* ======================= DatabaseBuilder.create_database_from_schema
TableNames == {"t1", "t2"}

\* The declaration lines the entities of a schema description are built from:
\* an integer key, an integer key marked not nullable, a plain string, a
\* string key marked autoincrement.
EntityLines ==
  { [name |-> "c", type |-> db_Integer, markers |-> {"primary_key=True"}],
    [name |-> "c", type |-> db_Integer, markers |-> {"primary_key=True", "nullable=False"}],
    [name |-> "c", type |-> db_String, markers |-> {}],
    [name |-> "c", type |-> db_String, markers |-> {"primary_key=True", "autoincrement=True"}] }

\* The column declarations of a class that declares the same column twice.
TwiceDeclared ==
  << [name |-> "c", type |-> db_String, markers |-> {}],
     [name |-> "c", type |-> db_String, markers |-> {}] >>

\* A model class of the schema description: its __tablename__, if it has
\* one, and its column declaration lines.
Entities ==
  [ tablename : {None} \cup { Some(t) : t \in TableNames },
    columns   : {<<>>, TwiceDeclared} \cup { <<line>> : line \in EntityLines } ]

SeqsUpTo(S, n) == UNION { [1..k -> S] : k \in 0..n }

Schemas(n) == SeqsUpTo(Entities, n)

\* A row of a parsed table: SQLite accepts it ("fits") or rejects it with a
\* constraint or type error ("violates").
Rows == {"fits", "violates"}
ParsedTables == [name : TableNames, data : SeqsUpTo(Rows, MaxRows)]
ParsedData(n) == SeqsUpTo(ParsedTables, n)

\* Variant of build_create_table_sql whose statement lacks IF NOT EXISTS.
build_create_table_sql_unguarded(table_name, columns) ==
  [create |-> "TABLE", table |-> table_name, columns |-> columns]

\* lines 208-214
build_create_table_sql(table_name, columns) ==
  [create |-> "TABLE IF NOT EXISTS", table |-> table_name, columns |-> columns]

\* lines 144-149: the compiled columns of a class
entity_columns(entity) ==
  [i \in DOMAIN entity.columns |->
     [name |-> entity.columns[i].name,
      definition |-> parse_column_definition(entity.columns[i])]]

\* lines 116-165: one statement per class that has a table name and columns.
RECURSIVE generate_create_table_sql(_)
generate_create_table_sql(schema) ==
  IF schema = <<>> THEN <<>>
  ELSE LET entity == Head(schema)
           rest   == generate_create_table_sql(Tail(schema))
       IN  IF ~IsNone(entity.tablename) /\ entity.columns # <<>>
             THEN <<build_create_table_sql(Val(entity.tablename), entity_columns(entity))>> \o rest
             ELSE rest

\* ------------------------------------------------------------- SQLite
\* The parser of SQLite takes AUTOINCREMENT only right after PRIMARY KEY.
SyntaxOk(statement) ==
  \A c \in DOMAIN statement.columns :
     LET cs == statement.columns[c].definition.constraints IN
     \A i \in DOMAIN cs :
        cs[i] = "AUTOINCREMENT" => (i > 1 /\ cs[i - 1] = "PRIMARY KEY")

\* What SQLite demands of a table it is about to create.
Creatable(statement) ==
  \A c \in DOMAIN statement.columns :
     LET d == statement.columns[c].definition IN
     /\ (\E i \in DOMAIN d.constraints : d.constraints[i] = "AUTOINCREMENT")
          => d.type = "INTEGER"
     /\ \A c2 \in DOMAIN statement.columns :
          c2 # c => statement.columns[c2].name # statement.columns[c].name

NoTable == [exists |-> FALSE, rows |-> 0]
EmptyDb == [t \in TableNames |-> NoTable]

\* cursor.execute of a CREATE TABLE IF NOT EXISTS statement: whether it
\* raises sqlite3.Error, and the database after it.
execute_create(statement, db) ==
  IF ~SyntaxOk(statement) THEN [raised |-> TRUE, db |-> db]
  ELSE IF db[statement.table].exists
    THEN [raised |-> statement.create # "TABLE IF NOT EXISTS", db |-> db]
  ELSE IF ~Creatable(statement) THEN [raised |-> TRUE, db |-> db]
  ELSE [raised |-> FALSE,
        db |-> [db EXCEPT ![statement.table] = [exists |-> TRUE, rows |-> 0]]]

\* cursor.execute of the INSERT of one row: whether it raises sqlite3.Error.
insert_raises(db, table_name, row) == ~db[table_name].exists \/ row = "violates"

\* lines 216-254: the rows are tried one by one; the number inserted and one
\* message per rejected row.
RECURSIVE insert_data(_, _, _)
insert_data(db, table_name, data) ==
  IF data = <<>> THEN [inserted |-> 0, errors |-> <<>>]
  ELSE LET rest == insert_data(db, table_name, Tail(data)) IN
       IF insert_raises(db, table_name, Head(data))
         THEN [rest EXCEPT !.errors = <<Err("Error inserting row into", table_name)>> \o @]
         ELSE [rest EXCEPT !.inserted = @ + 1]

\* lines 45-52
FreshResult ==
  [ success        |-> FALSE,
    tables_created |-> 0,
    rows_inserted  |-> [t \in TableNames |-> None],
    errors         |-> <<>>,
    warnings       |-> <<>> ]

\* The arguments and locals of a call; `first` keeps what the first call on
\* this database returned and the tables it left.
BuilderCall(schema, data) ==
  [ schema_code |-> schema, parsed_data |-> data, statements |-> <<>>,
    i |-> 1, j |-> 1, result |-> FreshResult, run |-> 1, first |-> None ]

TheBuild == Val(builder)

BuilderFrame ==
  /\ UNCHANGED <<router_out, service_response, status_out, compiler, executor, analyzer>>
  /\ UNCHANGED orchVars
  /\ UNCHANGED agentVars

\* lines 57-67: the statements are compiled and the database file is opened;
\* sqlite3.connect raises when the file cannot be opened, which the outer
\* except of lines 101-102 turns into the result.
db_start ==
  /\ pc = "db_call"
  /\ \/ /\ builder' = Some([TheBuild EXCEPT
                              !.statements = generate_create_table_sql(TheBuild.schema_code)])
        /\ pc' = "db_create"
     \/ /\ builder' = Some([TheBuild EXCEPT
                              !.result.errors = Append(@, Err("Database creation failed", 0))])
        /\ pc' = "db_done"
  /\ UNCHANGED physical_db
  /\ BuilderFrame

\* lines 70-75: one iteration of the table loop.
db_create_table ==
  /\ pc = "db_create"
  /\ TheBuild.i <= Len(TheBuild.statements)
  /\ LET done == execute_create(TheBuild.statements[TheBuild.i], physical_db) IN
     /\ physical_db' = done.db
     /\ builder' =
          Some(IF done.raised
                 THEN [TheBuild EXCEPT
                         !.i = @ + 1,
                         !.result.errors = Append(@, Err("Error creating table", TheBuild.i))]
                 ELSE [TheBuild EXCEPT
                         !.i = @ + 1,
                         !.result.tables_created = @ + 1])
  /\ UNCHANGED pc
  /\ BuilderFrame

\* line 77: the table loop is over.
db_commit_tables ==
  /\ pc = "db_create"
  /\ TheBuild.i > Len(TheBuild.statements)
  /\ pc' = "db_load"
  /\ UNCHANGED <<builder, physical_db>>
  /\ BuilderFrame

\* lines 80-94: one parsed table is loaded.
db_insert_table ==
  /\ pc = "db_load"
  /\ TheBuild.j <= Len(TheBuild.parsed_data)
  /\ LET table_info == TheBuild.parsed_data[TheBuild.j]
         table_name == table_info.name
         loaded     == insert_data(physical_db, table_name, table_info.data)
     IN  /\ physical_db' = [physical_db EXCEPT ![table_name].rows = @ + loaded.inserted]
         /\ builder' =
              Some([TheBuild EXCEPT
                      !.j = @ + 1,
                      !.result.rows_inserted[table_name] = Some(loaded.inserted),
                      !.result.warnings = @ \o loaded.errors])
  /\ UNCHANGED pc
  /\ BuilderFrame

\* lines 96-99
db_finish ==
  /\ pc = "db_load"
  /\ TheBuild.j > Len(TheBuild.parsed_data)
  /\ builder' = Some([TheBuild EXCEPT !.result.success = TRUE])
  /\ pc' = "db_done"
  /\ UNCHANGED physical_db
  /\ BuilderFrame

ExistingTables == { t \in TableNames : physical_db[t].exists }

\* The builder is called again with the same arguments on the same file.
db_again ==
  /\ pc = "db_done"
  /\ TheBuild.run < MaxRuns
  /\ builder' =
       Some([BuilderCall(TheBuild.schema_code, TheBuild.parsed_data) EXCEPT
               !.run = TheBuild.run + 1,
               !.first = IF TheBuild.run = 1
                           THEN Some([result |-> TheBuild.result, tables |-> ExistingTables])
                           ELSE TheBuild.first])
  /\ pc' = "db_call"
  /\ UNCHANGED physical_db
  /\ BuilderFrame

NextBuilder ==
  \/ db_start
  \/ db_create_table
  \/ db_commit_tables
  \/ db_insert_table
  \/ db_finish
  \/ db_again

InitBuilder(schemas, data) ==
  /\ NoJobs
  /\ pc = "db_call"
  /\ IdleAgent
  /\ agent_out = [status |-> "none", result |-> None]
  /\ router_out = None
  /\ service_response = None
  /\ status_out = None
  /\ compiler = None
  /\ analyzer = None
  /\ executor = None
  /\ physical_db = EmptyDb
  /\ \E schema \in schemas, parsed_data \in data :
        builder = Some(BuilderCall(schema, parsed_data))

\* Table creation: any schema description, little data.
FewRows == { <<>>, <<[name |-> "t1", data |-> <<"fits">>]>> }
InitCreate == InitBuilder(Schemas(MaxEntities), FewRows)
SpecCreate == InitCreate /\ [][NextBuilder]_vars

\* Data loading: any parsed data, schemas whose declarations SQLite accepts.
PlainEntity(t) ==
  [tablename |-> Some(t),
   columns |-> <<[name |-> "c", type |-> db_String, markers |-> {}]>>]
PlainSchemas == { <<>>, <<PlainEntity("t1")>>, <<PlainEntity("t1"), PlainEntity("t2")>> }
InitLoad == InitBuilder(PlainSchemas, ParsedData(MaxParsedTables))
SpecLoad == InitLoad /\ [][NextBuilder]_vars

\* ============================================================ FileAnalyzer
\* str.lower() and str.endswith() on the texts used as column names.
LowerChar(c) == CASE c = "I" -> "i" [] c = "D" -> "d" [] OTHER -> c
lower(text) == [k \in DOMAIN text |-> LowerChar(text[k])]
endswith(text, suffix) ==
  /\ Len(text) >= Len(suffix)
  /\ SubSeq(text, Len(text) - Len(suffix) + 1, Len(text)) = suffix

name_id == <<"i", "d">>
name_ID == <<"I", "D">>
name_paid == <<"p", "a", "i", "d">>
name_user_id == <<"u", "s", "e", "r", "_", "i", "d">>
name_user_id_old == <<"u", "s", "e", "r", "_", "i", "d", "_", "o", "l", "d">>
name_mrn == <<"m", "r", "n">>
name_patient_mrn == <<"p", "a", "t", "i", "e", "n", "t", "_", "m", "r", "n">>
suffix_id == <<"_", "i", "d">>

\* The inferred column types used here (FileParser._infer_column_type).
ColumnTypes == {"integer", "string"}

\* null_count and unique_count of a column of a table of row_count rows:
\* nunique() counts the distinct values that are not null.
ColumnStats(row_count) ==
  { s \in [null_count : 0..row_count, unique_count : 0..row_count] :
      IF s.null_count = row_count
        THEN s.unique_count = 0
        ELSE s.unique_count \in 1..(row_count - s.null_count) }

ColumnsOf(names, row_count) ==
  { [name |-> n, type |-> t, null_count |-> s.null_count, unique_count |-> s.unique_count] :
      n \in names, t \in ColumnTypes, s \in ColumnStats(row_count) }

\* The column labels of a data frame are distinct.
DistinctNames(columns) ==
  \A i, j \in DOMAIN columns : i # j => columns[i].name # columns[j].name

\* The tables FileParser._df_to_table_dict can give under a name.
TablesOf(table_name, names, row_counts) ==
  UNION { { [name |-> table_name, row_count |-> r, columns |-> cs] :
              cs \in { c \in SeqsUpTo(ColumnsOf(names, r), MaxColumns) : DistinctNames(c) } } :
          r \in row_counts }

\* lines 118-141: a column is a candidate, and its score
is_candidate(table, col) ==
  col.unique_count = table.row_count /\ col.null_count = 0

key_score(col) ==
  LET col_name_lower == lower(col.name) IN
  100 + (IF Contains(col_name_lower, name_id) THEN 50 ELSE 0)
      + (IF endswith(col_name_lower, suffix_id) \/ col_name_lower = name_id THEN 25 ELSE 0)
      + (IF col.type = "integer" THEN 25 ELSE 0)

\* lines 112-153: max() gives the first of the candidates of highest score.
suggest_primary_key(table) ==
  IF table.row_count = 0 THEN None
  ELSE LET cols == table.columns
           candidates == { k \in DOMAIN cols : is_candidate(table, cols[k]) }
       IN  IF candidates = {} THEN None
           ELSE LET best == CHOOSE k \in candidates :
                              \A m \in candidates :
                                 /\ key_score(cols[m]) <= key_score(cols[k])
                                 /\ key_score(cols[m]) = key_score(cols[k]) => k <= m
                IN  Some([column |-> cols[best].name,
                          confidence |-> IF key_score(cols[best]) >= 150
                                           THEN "high" ELSE "medium"])

\* lines 227-254: the findings about a table, or ZeroDivisionError from the
\* average over the columns of a table that has rows and no column.
NoKeyFound == [issue |-> "No obvious primary key candidate found", column |-> <<>>]
detect_data_quality_issues(table) ==
  LET cols == table.columns
      rows == table.row_count
      HighNulls[k \in 0..Len(cols)] ==
        IF k = 0 THEN <<>>
        ELSE IF rows > 0 /\ 2 * cols[k].null_count > rows
          THEN Append(HighNulls[k - 1], [issue |-> "null values", column |-> cols[k].name])
          ELSE HighNulls[k - 1]
      UniqueSum[k \in 0..Len(cols)] ==
        IF k = 0 THEN 0 ELSE UniqueSum[k - 1] + cols[k].unique_count
      duplicates ==
        IF rows > 10 /\ 10 * UniqueSum[Len(cols)] < rows * Len(cols)
          THEN <<[issue |-> "Potential duplicate rows detected", column |-> <<>>]>>
          ELSE <<>>
      has_unique_col == \E k \in DOMAIN cols : is_candidate(table, cols[k])
      no_key == IF ~has_unique_col /\ rows > 0 THEN <<NoKeyFound>> ELSE <<>>
  IN  IF rows > 0 /\ cols = <<>>
        THEN [raised |-> TRUE, issues |-> <<>>]
        ELSE [raised |-> FALSE, issues |-> HighNulls[Len(cols)] \o duplicates \o no_key]

\* lines 184-208, in tenths.
\* Variant of calculate_column_similarity that looks for the first name in
\* the second only.
calculate_column_similarity_one_way(col1, col2) ==
  LET name1_lower == lower(col1.name)
      name2_lower == lower(col2.name)
      score ==
          (IF col1.name = col2.name THEN 5 ELSE 0)
        + (IF Contains(name2_lower, name1_lower) THEN 3 ELSE 0)
        + (IF col1.type = col2.type THEN 2 ELSE 0)
        + (IF \/ Contains(name1_lower, suffix_id) /\ name2_lower = name_id
              \/ Contains(name2_lower, suffix_id) /\ name1_lower = name_id
             THEN 4 ELSE 0)
  IN  IF score > 10 THEN 10 ELSE score

calculate_column_similarity(col1, col2) ==
  LET name1_lower == lower(col1.name)
      name2_lower == lower(col2.name)
      score ==
          (IF col1.name = col2.name THEN 5 ELSE 0)
        + (IF Contains(name2_lower, name1_lower) \/ Contains(name1_lower, name2_lower)
             THEN 3 ELSE 0)
        + (IF col1.type = col2.type THEN 2 ELSE 0)
        + (IF \/ Contains(name1_lower, suffix_id) /\ name2_lower = name_id
              \/ Contains(name2_lower, suffix_id) /\ name1_lower = name_id
             THEN 4 ELSE 0)
  IN  IF score > 10 THEN 10 ELSE score

\* lines 165-180: the candidates of two tables, in the order of the loops.
relationships_of(info1, info2) ==
  LET cols1 == info1.table.columns
      cols2 == info2.table.columns
      n2 == Len(cols2)
      F[p \in 0..(Len(cols1) * n2)] ==
        IF p = 0 THEN <<>>
        ELSE LET col1 == cols1[((p - 1) \div n2) + 1]
                 col2 == cols2[((p - 1) % n2) + 1]
                 similarity_score == calculate_column_similarity(col1, col2)
             IN  IF similarity_score > 5
                   THEN Append(F[p - 1],
                          [from_file |-> info1.source_file, from_table |-> info1.table.name,
                           from_column |-> col1.name,
                           to_file |-> info2.source_file, to_table |-> info2.table.name,
                           to_column |-> col2.name,
                           confidence |-> IF similarity_score > 8 THEN "high" ELSE "medium"])
                   ELSE F[p - 1]
  IN  F[Len(cols1) * n2]

\* lines 155-182: every table with every later table.
detect_relationships(all_tables) ==
  LET n == Len(all_tables)
      F[q \in 0..(n * n)] ==
        IF q = 0 THEN <<>>
        ELSE LET i == ((q - 1) \div n) + 1
                 j == ((q - 1) % n) + 1
             IN  IF i < j THEN F[q - 1] \o relationships_of(all_tables[i], all_tables[j])
                          ELSE F[q - 1]
  IN  F[n * n]

\* ----------------------------------------------------------- analyze_files
\* lines 30-41: the analysis being built (the parts modelled), for the tables
\* of the parsed files; `first` keeps the analysis of an earlier call.
FileNames == {"patients.csv", "encounters.json"}
NewAnalysis(all_tables) ==
  [all_tables |-> all_tables,
   relationships |-> <<>>,
   suggested_primary_keys |-> [f \in FileNames |-> None],
   data_quality_issues |-> <<>>,
   first |-> None]

Analysis == Val(analyzer)

AnalyzerFrame ==
  /\ UNCHANGED <<router_out, service_response, status_out, compiler, builder, physical_db, executor>>
  /\ UNCHANGED orchVars
  /\ UNCHANGED agentVars

\* lines 58-60
an_detect_relationships ==
  /\ pc = "an_relationships"
  /\ analyzer' = Some([Analysis EXCEPT !.relationships =
                         IF Len(Analysis.all_tables) > 1
                           THEN detect_relationships(Analysis.all_tables)
                           ELSE <<>>])
  /\ pc' = "an_keys"
  /\ AnalyzerFrame

\* lines 62-68: the suggestions, under the key of file and table.
an_suggest_keys ==
  /\ pc = "an_keys"
  /\ analyzer' =
       Some([Analysis EXCEPT !.suggested_primary_keys =
          [f \in FileNames |->
             IF \E k \in DOMAIN Analysis.all_tables : Analysis.all_tables[k].source_file = f
               THEN LET k == CHOOSE k \in DOMAIN Analysis.all_tables :
                                Analysis.all_tables[k].source_file = f
                    IN  suggest_primary_key(Analysis.all_tables[k].table)
               ELSE None]])
  /\ pc' = "an_quality"
  /\ AnalyzerFrame

\* lines 70-78: the findings of every table, each with its file; an
\* exception leaves analyze_files.
findings_of(all_tables) ==
  LET F[k \in 0..Len(all_tables)] ==
        IF k = 0 THEN [raised |-> FALSE, issues |-> <<>>]
        ELSE LET found == detect_data_quality_issues(all_tables[k].table)
                 tagged == [i \in DOMAIN found.issues |->
                              [file |-> all_tables[k].source_file,
                               table |-> all_tables[k].table.name,
                               issue |-> found.issues[i]]]
             IN  IF F[k - 1].raised \/ found.raised
                   THEN [raised |-> TRUE, issues |-> F[k - 1].issues]
                   ELSE [raised |-> FALSE, issues |-> F[k - 1].issues \o tagged]
  IN  F[Len(all_tables)]

an_detect_quality ==
  /\ pc = "an_quality"
  /\ LET found == findings_of(Analysis.all_tables) IN
       /\ analyzer' = Some([Analysis EXCEPT !.data_quality_issues = found.issues])
       /\ pc' = IF found.raised THEN "an_raised" ELSE "an_done"
  /\ AnalyzerFrame

Reverse(seq) == [k \in DOMAIN seq |-> seq[Len(seq) + 1 - k]]

\* analyze_files is called again on the same tables in the opposite order.
an_again ==
  /\ pc = "an_done"
  /\ IsNone(Analysis.first)
  /\ analyzer' = Some([NewAnalysis(Reverse(Analysis.all_tables)) EXCEPT
                         !.first = Some([relationships |-> Analysis.relationships,
                                         suggested_primary_keys |-> Analysis.suggested_primary_keys,
                                         data_quality_issues |-> Analysis.data_quality_issues])])
  /\ pc' = "an_relationships"
  /\ AnalyzerFrame

NextAnalyzer ==
  \/ an_detect_relationships
  \/ an_suggest_keys
  \/ an_detect_quality
  \/ an_again

InitAnalyzer(inputs) ==
  /\ NoJobs
  /\ pc = "an_relationships"
  /\ IdleAgent
  /\ agent_out = [status |-> "none", result |-> None]
  /\ router_out = None
  /\ service_response = None
  /\ status_out = None
  /\ compiler = None
  /\ builder = None
  /\ physical_db = None
  /\ executor = None
  /\ \E all_tables \in inputs : analyzer = Some(NewAnalysis(all_tables))

\* Key suggestion: one file with one table of up to MaxRowCount rows.
KeyNames == {name_id, name_ID, name_paid, name_user_id, name_mrn}
KeyInputs(row_counts) ==
  { <<[source_file |-> "patients.csv", table |-> t]>> :
      t \in TablesOf("patients", KeyNames, row_counts) }
InitKeys == InitAnalyzer(KeyInputs(0..MaxRowCount))
SpecKeys == InitKeys /\ [][NextAnalyzer]_vars

\* Relationship detection: two files with one table each, of one row
\* without null values.
RelationNames == {name_id, name_user_id, name_user_id_old, name_mrn, name_patient_mrn}
Filled(table) == \A k \in DOMAIN table.columns : table.columns[k].null_count = 0
RelationInputs(names) ==
  { <<[source_file |-> "patients.csv", table |-> a],
      [source_file |-> "encounters.json", table |-> b]>> :
      a \in { t \in TablesOf("patients", names, {1}) : Filled(t) },
      b \in { t \in TablesOf("encounters", names, {1}) : Filled(t) } }
InitRelations == InitAnalyzer(RelationInputs(RelationNames))
SpecRelations == InitRelations /\ [][NextAnalyzer]_vars


\* ---------------------------------------- generate_schema in the background
\* app.py lines 199-204: generate_schema(id) runs in a worker thread while
\* the caller polls get_status.  The job is the analysed job process_files
\* left; the worker is at the first statement of the handler's body.
Analysed(files) ==
  [AwaitingApproval(files) EXCEPT
     !.stage = "analyzing", !.schema_result = None, !.schema_progress = None]

InitWorker ==
  /\ \E files \in FileLists :
        /\ ParsedOf(files) # <<>>
        /\ states = Some(Analysed(files))
        /\ disk = Snapshot(Analysed(files))
        /\ op = [NoCall EXCEPT !.name = "generate_schema",
                               !.errors0 = Len(ParseErrors(files))]
  /\ ret = "none"
  /\ calls = 2
  /\ faults = 0
  /\ parsed_files = <<>>
  /\ fidx = 1
  /\ databases = [n \in DbNames |-> 0]
  /\ pc = "gs_check"
  /\ IdleAgent
  /\ agent_out = [status |-> "none", result |-> None]
  /\ router_out = None
  /\ service_response = None
  /\ status_out = None
  /\ IdleTools

\* The steps of the worker thread.
WorkerStep ==
  \/ gs_check
  \/ SaveState
  \/ gs_call_agent
  \/ progress_callback
  \/ ag_round
  \/ ag_plan
  \/ ag_code
  \/ ag_verify
  \/ ag_route
  \/ ag_final
  \/ gs_store
  \/ gs_except
  \/ Return

NextWorker == WorkerStep \/ get_status

\* The thread is scheduled until its target returns or raises, every call of
\* the synthesis service returns or raises, and the caller keeps polling.
SpecWorker ==
  InitWorker /\ [][NextWorker]_vars /\ WF_vars(WorkerStep) /\ WF_vars(get_status)


\* ============================================ DatabaseUpdateAgent.execute
\* src/agents/executor.py.  The interpreter and the validator are the
\* collaborators passed to the constructor: what they return is an input.
\* The application database is reduced to what execute does to it: the
\* statements handed to session.execute, the writes and the audit entries
\* that were committed.
UpperChar(c) ==
  CASE c = "u" -> "U" [] c = "p" -> "P" [] c = "d" -> "D"
    [] c = "a" -> "A" [] c = "t" -> "T" [] c = "e" -> "E" [] OTHER -> c
upper(text) == [k \in DOMAIN text |-> UpperChar(text[k])]

intent_INSERT == <<"I", "N", "S", "E", "R", "T">>
intent_UPDATE == <<"U", "P", "D", "A", "T", "E">>
intent_update == <<"u", "p", "d", "a", "t", "e">>
intent_DELETE == <<"D", "E", "L", "E", "T", "E">>
intent_SELECT == <<"S", "E", "L", "E", "C", "T">>

\* plan.get('intent', ''): a plan without the key counts as the empty text.
IntentTexts ==
  {intent_INSERT, intent_UPDATE, intent_update, intent_DELETE, intent_SELECT, <<>>}

\* line 39
WriteIntents == {intent_INSERT, intent_UPDATE, intent_DELETE}

\* What interpreter.interpret returns: a plan, with or without an error key.
Plans == [error : BOOLEAN, intent : IntentTexts]

\* What execute returns: a dict with a status key or with an error key.
ExecuteResult(status, error) == [status |-> status, error |-> error]

\* A call of execute against a database that has seen `statements` calls of
\* session.execute, `writes` committed writes and `audit_log` audit entries.
NewExecute(dry_run, statements, writes, audit_log, runs) ==
  [ dry_run     |-> dry_run,
    plan        |-> None,
    validation  |-> None,
    intent      |-> None,
    result      |-> None,
    statements  |-> statements,
    writes      |-> writes,
    audit_log   |-> audit_log,
    statements0 |-> statements,
    audit_log0  |-> audit_log,
    runs        |-> runs ]

TheExecute == Val(executor)

ExecutorFrame ==
  /\ UNCHANGED <<router_out, service_response, status_out, compiler, builder,
                 physical_db, analyzer>>
  /\ UNCHANGED orchVars
  /\ UNCHANGED agentVars

\* execute returns `result`.
ExecuteReturns(call, result) ==
  /\ executor' = Some([call EXCEPT !.result = Some(result)])
  /\ pc' = "ex_done"

\* lines 16-18
ex_interpret ==
  /\ pc = "ex_interpret"
  /\ \E plan \in Plans :
        LET call == [TheExecute EXCEPT !.plan = Some(plan)] IN
        IF plan.error
          THEN ExecuteReturns(call, ExecuteResult("none", TRUE))
          ELSE /\ executor' = Some(call)
               /\ pc' = "ex_validate"
  /\ ExecutorFrame

\* lines 21-32
ex_validate ==
  /\ pc = "ex_validate"
  /\ \E approved \in BOOLEAN :
        LET call == [TheExecute EXCEPT !.validation = Some([approved |-> approved])] IN
        IF ~approved
          THEN ExecuteReturns(call, ExecuteResult("blocked", FALSE))
          ELSE /\ executor' =
                    Some([call EXCEPT !.intent = Some(upper(Val(call.plan).intent))])
               /\ pc' = "ex_dry_run"
  /\ ExecutorFrame

\* Variant of ex_dry_run that does not look at dry_run.
ex_dry_run_ignored ==
  /\ pc = "ex_dry_run"
  /\ pc' = "ex_intent"
  /\ UNCHANGED executor
  /\ ExecutorFrame

\* lines 35-36, 73-84
ex_dry_run ==
  /\ pc = "ex_dry_run"
  /\ IF TheExecute.dry_run
       THEN ExecuteReturns(TheExecute, ExecuteResult("dry_run", FALSE))
       ELSE /\ pc' = "ex_intent"
            /\ UNCHANGED executor
  /\ ExecutorFrame

\* lines 39-40
ex_intent ==
  /\ pc = "ex_intent"
  /\ IF Val(TheExecute.intent) \notin WriteIntents
       THEN ExecuteReturns(TheExecute, ExecuteResult("none", TRUE))
       ELSE /\ pc' = "ex_write"
            /\ UNCHANGED executor
  /\ ExecutorFrame

\* lines 42-71: the transaction.  session.execute raises; or the statement
\* runs and building or adding the audit entry, or the commit, raises (the
\* transaction is rolled back); or both are committed, after which reading
\* audit_entry.audit_id returns or raises.
WriteOutcomes == {"execute_raises", "rolled_back", "committed", "committed_id_raises"}

ex_write ==
  /\ pc = "ex_write"
  /\ \E outcome \in WriteOutcomes :
        LET ran  == [TheExecute EXCEPT !.statements = @ + 1]
            done == [ran EXCEPT !.writes = @ + 1, !.audit_log = @ + 1]
        IN  CASE outcome = "committed" ->
                   ExecuteReturns(done, ExecuteResult("success", FALSE))
              [] outcome = "committed_id_raises" ->
                   ExecuteReturns(done, ExecuteResult("none", TRUE))
              [] OTHER ->
                   ExecuteReturns(ran, ExecuteResult("none", TRUE))
  /\ ExecutorFrame

\* The next call of execute on the same database.
ex_again ==
  /\ pc = "ex_done"
  /\ TheExecute.runs < MaxExecutes
  /\ \E dry_run \in BOOLEAN :
        executor' = Some(NewExecute(dry_run, TheExecute.statements, TheExecute.writes,
                                    TheExecute.audit_log, TheExecute.runs + 1))
  /\ pc' = "ex_interpret"
  /\ ExecutorFrame

NextExecute ==
  \/ ex_interpret
  \/ ex_validate
  \/ ex_dry_run
  \/ ex_intent
  \/ ex_write
  \/ ex_again

InitExecute ==
  /\ NoJobs
  /\ pc = "ex_interpret"
  /\ IdleAgent
  /\ agent_out = [status |-> "none", result |-> None]
  /\ router_out = None
  /\ service_response = None
  /\ status_out = None
  /\ compiler = None
  /\ builder = None
  /\ physical_db = None
  /\ analyzer = None
  /\ \E dry_run \in BOOLEAN : executor = Some(NewExecute(dry_run, 0, 0, 0, 1))

SpecExecute == InitExecute /\ [][NextExecute]_vars


\* ================================================================ properties
\* Position of a stage in STAGES.
StageRank(stage) == CHOOSE i \in 1..Len(STAGES) : STAGES[i] = stage
Terminal(stage) == stage \in {"completed", "failed"}

\* A job is in the map before and after the step.
JobKept == ~IsNone(states) /\ ~IsNone(states')

\* The handler call in progress.
InCall(name) == op.name = name /\ pc \notin {"idle", "return"}

\* C1: every change of the job's stage moves forward along uploaded,
\* parsing, analyzing, generating_schema, awaiting_approval,
\* creating_database, completed, or goes to failed from a non-terminal stage.
C1_StageMovesForward ==
  [][ (JobKept /\ states'[1].stage # Job.stage) =>
        /\ ~Terminal(Job.stage)
        /\ \/ states'[1].stage = "failed"
           \/ StageRank(states'[1].stage) > StageRank(Job.stage) ]_vars

\* C2: once the stage is completed or failed, no step of a later call
\* changes it.
C2_TerminalStagesAbsorbing ==
  [][ (JobKept /\ Terminal(Job.stage)) => states'[1].stage = Job.stage ]_vars

\* C3: a handler call in whose body an exception was raised returns an error
\* result, leaves the job failed and has appended exactly one message beyond
\* the collected per-file parse failures.
C3_ExceptionBecomesErrorResult ==
  (pc = "return" /\ op.name \in Handlers /\ op.raised > 0 /\ ~IsNone(states)) =>
     /\ ret = "error"
     /\ Job.stage = "failed"
     /\ Len(Job.errors) = op.errors0 + op.parse_errors + 1

\* C4: whenever a handler returns, the snapshot on disk holds the stage and
\* the error list of the in-memory job.
C4_ReturnedStateIsPersisted ==
  (pc = "return" /\ op.name \in Handlers
     /\ ret \in {"success", "error", "message", "result"}) =>
     /\ disk.status = "ok"
     /\ Val(disk.data).stage = Job.stage
     /\ Val(disk.data).errors = Job.errors

\* C5: the steps of finalize_ingestion with approval withheld on a job in
\* awaiting_approval change neither the job (stage, schema_result,
\* database_result, parsed data, errors) nor the databases; and the stage
\* becomes creating_database only in a finalize_ingestion call with approval.
C5_WithheldApprovalChangesNothing ==
  [][ /\ ( /\ InCall("finalize_ingestion") /\ ~op.approved
           /\ pc \in {"fi_check", "fi_save_not_approved"}
           /\ Job.stage = "awaiting_approval" ) =>
             (states' = states /\ databases' = databases)
      /\ ( /\ JobKept
           /\ states'[1].stage = "creating_database"
           /\ Job.stage # "creating_database" ) =>
             (op.name = "finalize_ingestion" /\ op.approved) ]_vars

\* A finalize_ingestion call without approval has returned its message on a
\* job whose schema was generated and that waits for approval.
C5_Witness ==
  /\ pc = "return" /\ op.name = "finalize_ingestion" /\ ~op.approved
  /\ ret = "message"
  /\ Job.stage = "awaiting_approval"
  /\ ~IsNone(Job.schema_result)
  /\ IsNone(Job.database_result)

\* The result a returned agent call handed to its caller.
Returned == agent_out.status = "returned"
Result == Val(agent_out.result)
SufficientRound(record) == Val(record.verification).is_sufficient

\* C6: the agent runs at most max_rounds rounds and stops after the first
\* sufficient one: rounds_taken is that round's number, or max_rounds when
\* none is sufficient, and the service was asked for one plan and one
\* verification per round taken, one compilation per round plus the final one.
C6_StopsAtFirstSufficientRound ==
  /\ round_num <= max_rounds
  /\ service_calls.plan <= max_rounds
  /\ service_calls.verify <= max_rounds
  /\ Returned =>
       LET h == Result.refinement_history
           n == Result.rounds_taken
       IN  /\ n \in 1..max_rounds
           /\ n = Len(h)
           /\ \A i \in 1..n : h[i].round = i
           /\ \A i \in 1..(n - 1) : ~SufficientRound(h[i])
           /\ SufficientRound(h[n]) \/ n = max_rounds
           /\ service_calls = [plan |-> n, code |-> n + 1, verify |-> n]

\* The agent has returned before its budget of rounds was used up.
C6_Witness ==
  /\ pc = "agent_done" /\ Returned
  /\ Result.rounds_taken < max_rounds
  /\ SufficientRound(Result.refinement_history[Result.rounds_taken])

\* C7: a call of SchemaAgent.generate_schema ends by returning a result,
\* never by raising, also when the synthesis service fails.
C7_AgentNeverRaises == pc = "agent_done" => Returned

AnyIssue(issues, severity) == \E i \in DOMAIN issues : issues[i].severity = severity
FirstIssue(issues, severity) ==
  issues[CHOOSE i \in DOMAIN issues :
           /\ issues[i].severity = severity
           /\ \A j \in 1..(i - 1) : issues[j].severity # severity]

\* C8: the report _verify_schema produces has is_sufficient true whenever
\* none of its issues is critical, whatever flag the service sent.
C8_SufficientWithoutCritical ==
  pc = "verify_done" =>
     /\ Val(verification).issues = Val(service_response).issues
     /\ ~AnyIssue(Val(verification).issues, "critical") => Val(verification).is_sufficient

\* The service sent is_sufficient false with a warning and no critical issue,
\* and the report says sufficient.
C8_Witness ==
  /\ pc = "verify_done"
  /\ ~Val(service_response).is_sufficient
  /\ AnyIssue(Val(verification).issues, "warning")
  /\ ~AnyIssue(Val(verification).issues, "critical")
  /\ Val(verification).is_sufficient

\* C9: when every one of the max_rounds rounds ended insufficient, the agent
\* still returns a result, built from the last round's plan, with
\* verification_status false and rounds_taken equal to max_rounds.
C9_ExhaustedBudgetStillReturns ==
  [][ ( /\ pc = "ag_final"
        /\ Len(refinement_history) = max_rounds
        /\ ~Val(verification).is_sufficient ) =>
          /\ agent_out'.status = "returned"
          /\ agent_out'.result[1].verification_status = FALSE
          /\ agent_out'.result[1].rounds_taken = max_rounds
          /\ agent_out'.result[1].schema_description.of_plan = max_rounds ]_vars

FirstBuildDone == pc = "db_done" /\ TheBuild.run = 1 /\ TheBuild.result.success

\* The rows of the parsed table that SQLite rejected.
Rejected(table_info) ==
  { i \in DOMAIN table_info.data :
      ~physical_db[table_info.name].exists \/ table_info.data[i] = "violates" }

RECURSIVE RejectedMessages(_)
RejectedMessages(data) ==
  IF data = <<>> THEN <<>>
  ELSE [i \in 1..Cardinality(Rejected(Head(data))) |->
          Err("Error inserting row into", Head(data).name)]
         \o RejectedMessages(Tail(data))

\* C11: after loading, the warnings are one per rejected row, naming its
\* table, and the rows_inserted reported for a table name is the number of
\* rows the run inserted into that table, also when parsed tables share a name.
C11_RowCountsAreExact ==
  FirstBuildDone =>
     /\ TheBuild.result.warnings = RejectedMessages(TheBuild.parsed_data)
     /\ \A j \in DOMAIN TheBuild.parsed_data :
          LET t == TheBuild.parsed_data[j].name IN
          /\ ~IsNone(TheBuild.result.rows_inserted[t])
          /\ Val(TheBuild.result.rows_inserted[t]) = physical_db[t].rows

\* C12: every statement is attempted, each failure adds one structural
\* error, and tables_created is the number of tables the run created.
C12_TablesCreatedIsExact ==
  FirstBuildDone =>
     /\ TheBuild.i = Len(TheBuild.statements) + 1
     /\ Len(TheBuild.result.errors) + TheBuild.result.tables_created
          = Len(TheBuild.statements)
     /\ TheBuild.result.tables_created = Cardinality(ExistingTables)

\* The first call of the builder went through table creation, and a later
\* call on the same database has done so too.
FirstBuild == Val(TheBuild.first)
LaterBuildDone ==
  /\ pc = "db_done" /\ TheBuild.run > 1
  /\ FirstBuild.result.success /\ TheBuild.result.success
ErrorsOf(result) == { result.errors[k] : k \in DOMAIN result.errors }

\* C13 as stated: the second run records no structural error and leaves the
\* table set as the first run left it.
C13_SecondRunHasNoError ==
  LaterBuildDone =>
     /\ TheBuild.result.errors = <<>>
     /\ ExistingTables = FirstBuild.tables

\* C13 as amended: the second run records no structural error beyond those
\* of the first run, none at all when the first run had none, and leaves
\* the table set as the first run left it.
C13_SecondRunAddsNothing ==
  LaterBuildDone =>
     /\ ErrorsOf(TheBuild.result) \subseteq ErrorsOf(FirstBuild.result)
     /\ ExistingTables = FirstBuild.tables

\* The second run went over a schema whose two tables the first run created.
C13_Witness ==
  /\ LaterBuildDone
  /\ FirstBuild.result.success
  /\ FirstBuild.result.tables_created = 2
  /\ FirstBuild.tables = TableNames
  /\ TheBuild.result.errors = <<>>

\* process_files has run to its return statement without an exception
\* reaching the outer except clause.
ProcessFilesReturns ==
  /\ pc = "return" /\ op.name = "process_files"
  /\ ret \in {"success", "error"} /\ op.raised = 0

\* C14 as stated, in the part that fails: once analysis has succeeded the
\* call returns success with parsed data and analysis recorded and the
\* stage at analyzing.
C14_AnalysedCallReturnsSuccess ==
  [][ pc = "pf_save_analysis" =>
        /\ pc' = "return" /\ ret' = "success"
        /\ Job'.stage = "analyzing"
        /\ Job'.parsed_data = Some(parsed_files)
        /\ Job'.file_analysis = Some(analyze_files(parsed_files)) ]_vars

\* C14 as amended: when every snapshot write of the call succeeds and
\* analysis does not raise, the error list grows by one entry per file that
\* failed to parse (every file having been tried), the job is failed with
\* the no-files message exactly when no file parsed, and otherwise the call
\* returns success with parsed data and analysis recorded, stage analyzing.
C14_FailsExactlyWithoutParsedFiles ==
  ProcessFilesReturns =>
     LET grown == SubSeq(Job.errors, op.errors0 + 1, Len(Job.errors)) IN
     /\ parsed_files = ParsedOf(Job.files)
     /\ IF parsed_files = <<>>
          THEN /\ grown = Append(ParseErrors(Job.files),
                                 Err("No files successfully parsed", 0))
               /\ ret = "error" /\ Job.stage = "failed"
          ELSE /\ grown = ParseErrors(Job.files)
               /\ ret = "success" /\ Job.stage = "analyzing"
               /\ Job.parsed_data = Some(parsed_files)
               /\ Job.file_analysis = Some(analyze_files(parsed_files))

\* A call over one malformed and one well-formed file returned success.
C14_Witness ==
  /\ ProcessFilesReturns
  /\ ret = "success"
  /\ op.parse_errors = 1
  /\ Len(parsed_files) = 1

\* C15: the stage a status request returns is the stage of the job's
\* persisted record at that moment, and its errors are all errors of the job.
C15_StatusIsDurable ==
  [][ (get_status /\ Val(status_out').result = "status") =>
        /\ disk'.status = "ok"
        /\ Val(status_out').stage = Val(disk'.data).stage
        /\ Val(status_out').errors = Job'.errors ]_vars

\* The analysis of one table has ended, by returning or by raising.
KeysTable == Analysis.all_tables[1].table
KeysSuggestion == Analysis.suggested_primary_keys[Analysis.all_tables[1].source_file]
KeysEnded == pc \in {"an_done", "an_raised"} /\ Len(Analysis.all_tables) = 1

\* C16: the suggestion for a table is a column of highest score among those
\* with unique_count = row_count and null_count = 0, with confidence high
\* exactly when that score is at least 150; a table without such a column
\* gets no suggestion and the finding that it has no obvious key.
C16_BestQualifyingColumn ==
  KeysEnded =>
     LET cols == KeysTable.columns
         qualifying == { k \in DOMAIN cols :
                           /\ cols[k].unique_count = KeysTable.row_count
                           /\ cols[k].null_count = 0 }
     IN  IF qualifying # {}
           THEN /\ ~IsNone(KeysSuggestion)
                /\ \E k \in qualifying :
                      /\ Val(KeysSuggestion).column = cols[k].name
                      /\ \A m \in qualifying : key_score(cols[m]) <= key_score(cols[k])
                      /\ Val(KeysSuggestion).confidence = "high" <=> key_score(cols[k]) >= 150
           ELSE /\ IsNone(KeysSuggestion)
                /\ pc = "an_done"
                /\ \E i \in DOMAIN Analysis.data_quality_issues :
                      Analysis.data_quality_issues[i].issue = NoKeyFound

\* The two analyses of the same tables, in both orders, have been made.
BothOrdersDone == pc = "an_done" /\ ~IsNone(Analysis.first)

\* A candidate without its direction: its two ends and its confidence.
End(file, table, column) == [file |-> file, table |-> table, column |-> column]
Undirected(relationships) ==
  { [ends |-> { End(r.from_file, r.from_table, r.from_column),
                End(r.to_file, r.to_table, r.to_column) },
     confidence |-> r.confidence] :
    r \in { relationships[k] : k \in DOMAIN relationships } }

\* C17: the tables analysed as [A, B] and as [B, A] give the same column
\* pairs with the same confidence, as many of them, whatever the direction.
C17_TableOrderIsIrrelevant ==
  BothOrdersDone =>
     /\ Undirected(Analysis.relationships) = Undirected(Val(Analysis.first).relationships)
     /\ Len(Analysis.relationships) = Len(Val(Analysis.first).relationships)

\* Both orders were analysed and gave a candidate between user_id and id,
\* which the two calls report in opposite directions.
C17_Witness ==
  /\ BothOrdersDone
  /\ \E k \in DOMAIN Analysis.relationships :
        /\ Analysis.relationships[k].from_column = name_id
        /\ Analysis.relationships[k].to_column = name_user_id
        /\ \E m \in DOMAIN Val(Analysis.first).relationships :
              /\ Val(Analysis.first).relationships[m].from_column = name_user_id
              /\ Val(Analysis.first).relationships[m].to_column = name_id

\* The relationships have been detected for two tables.
RelationshipsDetected == pc = "an_keys" /\ Len(Analysis.all_tables) = 2
Reported(col1, col2) ==
  \E k \in DOMAIN Analysis.relationships :
     /\ Analysis.relationships[k].from_column = col1.name
     /\ Analysis.relationships[k].to_column = col2.name

\* C18: a column mrn of one table and a column patient_mrn of the same type
\* of the other table are reported as a relationship candidate.
C18_MrnPairIsReported ==
  RelationshipsDetected =>
     \A k1 \in DOMAIN Analysis.all_tables[1].table.columns,
        k2 \in DOMAIN Analysis.all_tables[2].table.columns :
        LET col1 == Analysis.all_tables[1].table.columns[k1]
            col2 == Analysis.all_tables[2].table.columns[k2]
        IN  (/\ {col1.name, col2.name} = {name_mrn, name_patient_mrn}
             /\ col1.type = col2.type)
              => Reported(col1, col2)

\* The score of the claim, in tenths.
ClaimedSimilarity(col1, col2) ==
  LET score ==
          (IF col1.name = col2.name THEN 5 ELSE 0)
        + (IF Contains(col1.name, col2.name) \/ Contains(col2.name, col1.name) THEN 3 ELSE 0)
        + (IF col1.type = col2.type THEN 2 ELSE 0)
        + (IF \/ endswith(col1.name, suffix_id) /\ col2.name = name_id
              \/ endswith(col2.name, suffix_id) /\ col1.name = name_id
             THEN 4 ELSE 0)
  IN  IF score > 10 THEN 10 ELSE score

\* C19: a pair of columns of the two tables is reported exactly when the
\* capped sum of +0.5 (identical names), +0.3 (one name a substring of the
\* other), +0.2 (same type) and +0.4 (one name ends in "_id", the other is
\* "id") is above 0.5, with confidence high exactly when it is above 0.8.
C19_ScoreDecidesReport ==
  RelationshipsDetected =>
     \A k1 \in DOMAIN Analysis.all_tables[1].table.columns,
        k2 \in DOMAIN Analysis.all_tables[2].table.columns :
        LET col1 == Analysis.all_tables[1].table.columns[k1]
            col2 == Analysis.all_tables[2].table.columns[k2]
        IN  /\ Reported(col1, col2) <=> ClaimedSimilarity(col1, col2) > 5
            /\ \A k \in DOMAIN Analysis.relationships :
                  (/\ Analysis.relationships[k].from_column = col1.name
                   /\ Analysis.relationships[k].to_column = col2.name)
                    => (Analysis.relationships[k].confidence = "high"
                          <=> ClaimedSimilarity(col1, col2) > 8)

\* The fixed table of physical types, by the declared type of the line.
ClaimedType(declared) ==
  CASE declared = db_Integer  -> "INTEGER"
    [] declared = db_Float    -> "REAL"
    [] declared = db_Text     -> "TEXT"
    [] declared = db_String   -> "TEXT"
    [] declared = db_Boolean  -> "INTEGER"
    [] declared = db_Date     -> "DATE"
    [] declared = db_DateTime -> "DATETIME"
    [] OTHER                  -> "TEXT"

\* C20: the compiled definition of a column declaration has the physical
\* type the fixed table gives for its declared type.
C20_TypeTable ==
  pc = "compile_done" =>
     Val(Val(compiler).sql).type = ClaimedType(Val(compiler).line.type)

\* The constraints of the compiled definition, as a set.
CompiledConstraints ==
  LET cs == Val(Val(compiler).sql).constraints IN { cs[k] : k \in DOMAIN cs }

\* C21: the compiled definition has PRIMARY KEY, UNIQUE and NOT NULL exactly
\* when the declaration has the marker, and AUTOINCREMENT only when the
\* column is declared primary key and of an integer type.
C21_ConstraintsFollowMarkers ==
  pc = "compile_done" =>
     LET line == Val(compiler).line IN
     /\ "PRIMARY KEY" \in CompiledConstraints <=> "primary_key=True" \in line.markers
     /\ "UNIQUE" \in CompiledConstraints <=> "unique=True" \in line.markers
     /\ "NOT NULL" \in CompiledConstraints <=> "nullable=False" \in line.markers
     /\ "AUTOINCREMENT" \in CompiledConstraints =>
           /\ "primary_key=True" \in line.markers
           /\ line.type \in {db_Integer, db_BigInteger}

\* C22: no physical database file is opened for writing by more than one
\* call of finalize_ingestion.
C22_FreshDatabasePerCall ==
  \A name \in DbNames : databases[name] <= 1

\* C23: every class of the schema description is accounted for by a CREATE
\* TABLE statement that was executed (successfully or with a structural
\* error recorded for it): the executed statements are as many as the classes.
C23_NoEntityDropped ==
  FirstBuildDone =>
     /\ Len(TheBuild.statements) = Len(TheBuild.schema_code)
     /\ TheBuild.result.tables_created + Len(TheBuild.result.errors)
          = Len(TheBuild.schema_code)

\* C24: whatever becomes of the progress callback (its snapshot write may
\* raise), the refinement loop goes on with the step that follows it.
C24_CallbackFailureDoesNotStopLoop ==
  [][ (pc \in CallbackSites) => (pc' = AfterCallback(pc)) ]_vars

\* C25 as stated: within one call of the agent the history only grows, its
\* k-th record has round number k, and no record that is in the history is
\* ever different in the next state.
C25_RecordsNeverModified ==
  [][ (refinement_history' # <<>>) =>
        (/\ Len(refinement_history') >= Len(refinement_history)
         /\ \A k \in DOMAIN refinement_history' : refinement_history'[k].round = k
         /\ \A k \in DOMAIN refinement_history :
               refinement_history'[k] = refinement_history[k]) ]_vars

\* C25: within one call of the agent the history only grows, its k-th record
\* has round number k, every record but the last is never modified, and the
\* last record keeps its round and plan while its verification and its
\* action, appended empty, are each filled in at most once.
C25_OnlyLastRecordIsCompleted ==
  [][ (refinement_history' # <<>>) =>
        (/\ Len(refinement_history') >= Len(refinement_history)
         /\ \A k \in DOMAIN refinement_history' : refinement_history'[k].round = k
         /\ \A k \in DOMAIN refinement_history :
               /\ k < Len(refinement_history') =>
                     refinement_history'[k] = refinement_history[k]
               /\ refinement_history'[k].plan = refinement_history[k].plan
               /\ \/ IsNone(refinement_history[k].verification)
                  \/ refinement_history'[k].verification
                       = refinement_history[k].verification
               /\ \/ IsNone(refinement_history[k].action)
                  \/ refinement_history'[k].action = refinement_history[k].action) ]_vars

\* Two rounds were carried out and both records are complete.
C25_Witness ==
  /\ Len(refinement_history) = 2
  /\ ~IsNone(refinement_history[1].action)
  /\ ~IsNone(refinement_history[2].verification)
  /\ ~IsNone(refinement_history[2].action)

\* C26: the job has no result of a later stage than its current one: no
\* schema_result while the stage is uploaded, parsing, analyzing or
\* generating_schema, and no database_result while the stage is anything
\* but completed or failed.
C26_NoResultOfLaterStage ==
  ~IsNone(states) =>
     /\ Job.stage \in {"uploaded", "parsing", "analyzing", "generating_schema"}
           => IsNone(Job.schema_result)
     /\ Job.stage \notin {"completed", "failed"} => IsNone(Job.database_result)

\* C27: a call of execute hands a statement to the database or adds an audit
\* entry only when the validator approved the plan, dry_run is false and the
\* intent is INSERT, UPDATE or DELETE; a plan the validator rejected ends
\* with status blocked and an approved dry run with status dry_run, both
\* without a statement executed and without an audit entry added.
C27_WritesOnlyWhenApprovedAndNotDry ==
  ~IsNone(executor) =>
     LET e        == TheExecute
         untouched == e.statements = e.statements0 /\ e.audit_log = e.audit_log0
     IN  /\ ~untouched =>
              /\ e.validation = Some([approved |-> TRUE])
              /\ ~e.dry_run
              /\ upper(Val(e.plan).intent) \in WriteIntents
         /\ (pc = "ex_done" /\ e.validation = Some([approved |-> FALSE])) =>
              /\ Val(e.result).status = "blocked"
              /\ untouched
         /\ (pc = "ex_done" /\ e.validation = Some([approved |-> TRUE]) /\ e.dry_run) =>
              /\ Val(e.result).status = "dry_run"
              /\ untouched

\* A write with its audit entry was committed by a first call, and a second
\* call, with dry_run false, ended blocked by the validator.
C27_Witness ==
  /\ ~IsNone(executor)
  /\ pc = "ex_done"
  /\ TheExecute.runs = 2
  /\ TheExecute.audit_log = 1
  /\ TheExecute.writes = 1
  /\ ~TheExecute.dry_run
  /\ Val(TheExecute.result).status = "blocked"

\* C28: the schema_code of the result the agent returns is the schema_code
\* the verifier judged in the last round carried out.
C28_ReturnedCodeIsVerifiedCode ==
  [][ (pc = "ag_final" /\ agent_out'.status = "returned") =>
        (Val(agent_out'.result).schema_code = Val(schema_code)) ]_vars

\* The stage the last status request showed.
ObservedStage == IF IsNone(status_out) THEN "none" ELSE Val(status_out).stage

\* C29: once the background call has put the job into generating_schema, the
\* job reaches awaiting_approval or failed and a status request shows that
\* stage.
C29_GenerationEndsAndIsObserved ==
  (~IsNone(states) /\ Job.stage = "generating_schema")
     ~> (/\ Job.stage \in {"awaiting_approval", "failed"}
         /\ ObservedStage = Job.stage)

\* The worker has returned after two rounds of refinement and the poller has
\* seen the approval stage.
C29_Witness ==
  /\ pc = "idle"
  /\ ~IsNone(states)
  /\ Job.stage = "awaiting_approval"
  /\ ObservedStage = "awaiting_approval"
  /\ Val(Job.schema_result).rounds_taken = 2

\* The materializer has returned in the running call of finalize_ingestion:
\* the call is at the snapshot write that follows, or in the except clause
\* that write led to.
Materialized ==
  /\ op.name = "finalize_ingestion"
  /\ \/ pc = "fi_save_result"
     \/ pc = "fi_except" /\ Job.stage # "creating_database"

\* The last n entries of an error list.
LastErrors(errors, n) == SubSeq(errors, Len(errors) - n + 1, Len(errors))

\* What the claim says of the job once the materializer has returned.
MaterializedOutcome(job) ==
  /\ ~IsNone(job.database_result)
  /\ LET r == Val(job.database_result) IN
     /\ job.stage = (IF r.success THEN "completed" ELSE "failed")
     /\ ~r.success =>
           /\ Len(job.errors) >= Len(r.errors)
           /\ LastErrors(job.errors, Len(r.errors)) = r.errors
     /\ r.success <=>
           \A k \in DOMAIN r.errors : r.errors[k].msg # "Database creation failed"

\* C30 as stated: once the materializer has returned, the job is and stays
\* completed exactly when the result has success true, else failed with the
\* result's structural errors at the end of its error list, and the result
\* is its database_result.
C30_StageFollowsSuccess ==
  [][ Materialized => MaterializedOutcome(Job') ]_vars

\* C30: the same, except that when the snapshot write after materialization
\* raises the except clause makes the job failed, whatever the result's
\* success, with one more error; the result stays recorded as database_result.
C30_StageFollowsSuccessUnlessWriteFails ==
  [][ Materialized =>
        (/\ Job'.database_result = Job.database_result
         /\ IF pc = "fi_except"
              THEN /\ Job'.stage = "failed"
                   /\ Job'.errors = Append(Job.errors, Err("Database creation failed", 0))
                   /\ MaterializedOutcome(Job)
              ELSE MaterializedOutcome(Job')) ]_vars

\* finalize_ingestion returns its result for a job completed by a
\* materialization in which a table creation failed.
C30_Witness ==
  /\ pc = "return"
  /\ op.name = "finalize_ingestion"
  /\ ret = "result"
  /\ Job.stage = "completed"
  /\ Val(Job.database_result).success
  /\ Val(Job.database_result).errors # <<>>

====
